---------------------------- MODULE Spec2Model ----------------------------
(***************************************************************************)
(* Model of the crop database command-line tools (src/cropdb/data):        *)
(*   eppo_verify.verify_codes, import_focus_sw_characteristics             *)
(*   (import_characteristics, import_irrigation, main),                    *)
(*   import_interception, import_primo, import_swash_json.import_links,    *)
(*   import_swash_mdb.import_from_csv.                                      *)
(*                                                                         *)
(* Text is a sequence of one-character strings, so that str.strip,         *)
(* str.lower, str.endswith, int(), float() and the regular expressions are *)
(* computed and not assumed.  A Python value is a tagged record.           *)
(***************************************************************************)
EXTENDS Integers, Sequences, FiniteSets, TLC

VARIABLES
    fn, arg, ret,          \* pure-function harness: function applied, argument, result
    tool,                  \* the tool of this process
    dry_run,               \* not args.apply
    env,                   \* what exists outside the process: files, libraries
    pc,                    \* position of the process
    db,                    \* persisted database content (committed)
    txn,                   \* content seen through the open connection (uncommitted)
    input,                 \* the parsed source(s) of the run
    idx,                   \* index of the next record of the current loop
    loc,                   \* the run's local variables (counters, lists)
    writes,                \* INSERT / UPDATE statements executed in this run
    runs,                  \* completed runs of the tool on this database
    hist                   \* ghost: facts about this and the previous run

pureVars == <<fn, arg, ret>>
toolVars == <<tool, dry_run, env, pc, db, txn, input, idx, loc, writes, runs, hist>>
vars == <<fn, arg, ret, tool, dry_run, env, pc, db, txn, input, idx, loc, writes, runs, hist>>

---------------------------------------------------------------------------
(* Python values *)

PyNone == [t |-> "none"]
PyStr(s) == [t |-> "str", s |-> s]
PyInt(n) == [t |-> "int", n |-> n]
\* a float, kept exactly as a number of thousandths
PyFloat(m) == [t |-> "float", m |-> m]
\* a JSON array
PyList(l) == [t |-> "list", l |-> l]
\* the outcome of an expression that raised
Raised == [t |-> "raise"]

IsStr(v) == v.t = "str"
IsNone(v) == v.t = "none"

\* Python truthiness of a value (None, "", 0 and 0.0 are falsy)
Truthy(v) ==
    CASE v.t = "none" -> FALSE
      [] v.t = "str" -> v.s # <<>>
      [] v.t = "int" -> v.n # 0
      [] v.t = "float" -> v.m # 0
      [] v.t = "list" -> v.l # <<>>
      [] OTHER -> TRUE

\* a or b
PyOr(a, b) == IF Truthy(a) THEN a ELSE b

---------------------------------------------------------------------------
(* Text *)

Digits == {"0", "1", "2", "3", "4", "5", "6", "7", "8", "9"}
IsDigit(c) == c \in Digits
DigitVal(c) ==
    CASE c = "0" -> 0 [] c = "1" -> 1 [] c = "2" -> 2 [] c = "3" -> 3 [] c = "4" -> 4
      [] c = "5" -> 5 [] c = "6" -> 6 [] c = "7" -> 7 [] c = "8" -> 8 [] c = "9" -> 9
DigitChar(d) ==
    CASE d = 0 -> "0" [] d = 1 -> "1" [] d = 2 -> "2" [] d = 3 -> "3" [] d = 4 -> "4"
      [] d = 5 -> "5" [] d = 6 -> "6" [] d = 7 -> "7" [] d = 8 -> "8" [] d = 9 -> "9"

IsSpace(c) == c \in {" ", "\n", "\t"}

AllDigits(s) == \A k \in 1..Len(s) : IsDigit(s[k])

RECURSIVE LStrip(_)
LStrip(s) == IF s # <<>> /\ IsSpace(Head(s)) THEN LStrip(Tail(s)) ELSE s

RECURSIVE RStrip(_)
RStrip(s) ==
    IF s # <<>> /\ IsSpace(s[Len(s)]) THEN RStrip(SubSeq(s, 1, Len(s) - 1)) ELSE s

\* str.strip()
Strip(s) == RStrip(LStrip(s))

\* str.endswith(suffix)
EndsWith(s, suffix) ==
    /\ Len(s) >= Len(suffix)
    /\ SubSeq(s, Len(s) - Len(suffix) + 1, Len(s)) = suffix

\* s[:n]
Prefix(s, n) == SubSeq(s, 1, IF n < Len(s) THEN n ELSE Len(s))

\* str(n) of a non-negative integer
RECURSIVE NatToStr(_)
NatToStr(n) == IF n < 10 THEN <<DigitChar(n)>> ELSE Append(NatToStr(n \div 10), DigitChar(n % 10))

IntToStr(n) == IF n < 0 THEN <<"-">> \o NatToStr(-n) ELSE NatToStr(n)

\* str(v)
Str(v) ==
    CASE v.t = "str" -> v.s
      [] v.t = "int" -> IntToStr(v.n)
      [] v.t = "none" -> <<"N", "o", "n", "e">>

\* re.match(r'^\d{lo,hi}$', s): '$' matches at the end of the string and also
\* just before a newline that is the last character of the string.
ReMatchDigits(s, lo, hi) ==
    LET body == IF s # <<>> /\ s[Len(s)] = "\n" THEN SubSeq(s, 1, Len(s) - 1) ELSE s
    IN  \/ Len(s) >= lo /\ Len(s) <= hi /\ AllDigits(s)
        \/ s # <<>> /\ s[Len(s)] = "\n"
             /\ Len(body) >= lo /\ Len(body) <= hi /\ AllDigits(body)

\* str.zfill(width)
RECURSIVE ZFill(_, _)
ZFill(s, width) == IF Len(s) >= width THEN s ELSE ZFill(<<"0">> \o s, width)

\* the value of a text of digits
RECURSIVE StrToNat(_)
StrToNat(s) == IF s = <<>> THEN 0 ELSE 10 * StrToNat(SubSeq(s, 1, Len(s) - 1)) + DigitVal(s[Len(s)])

HasSign(s) == s # <<>> /\ Head(s) \in {"+", "-"}
Unsigned(s) == IF HasSign(s) THEN Tail(s) ELSE s
SignOf(s) == IF s # <<>> /\ Head(s) = "-" THEN -1 ELSE 1

\* int(text): surrounding white space and one sign are accepted, then digits only
ParseInt(s) ==
    LET u == Unsigned(Strip(s))
    IN  IF u # <<>> /\ AllDigits(u) THEN PyInt(SignOf(Strip(s)) * StrToNat(u)) ELSE Raised

\* the position of the first "." of s, or 0
FirstDot(s) ==
    IF \E k \in 1..Len(s) : s[k] = "."
    THEN CHOOSE k \in 1..Len(s) : s[k] = "." /\ \A j \in 1..(k - 1) : s[j] # "."
    ELSE 0

\* the first three decimals of a text of digits, as thousandths
Thousandths(f) ==
    LET d(k) == IF k <= Len(f) THEN DigitVal(f[k]) ELSE 0
    IN  100 * d(1) + 10 * d(2) + d(3)

\* float(text) for decimal notation: white space, one sign, digits with at most
\* one "." and at least one digit (kept to three decimals)
ParseFloat(s) ==
    LET u == Unsigned(Strip(s))
        k == FirstDot(u)
        ip == IF k = 0 THEN u ELSE SubSeq(u, 1, k - 1)
        fp == IF k = 0 THEN <<>> ELSE SubSeq(u, k + 1, Len(u))
    IN  IF AllDigits(ip) /\ AllDigits(fp) /\ Len(ip) + Len(fp) > 0
        THEN PyFloat(SignOf(Strip(s)) * (1000 * StrToNat(ip) + Thousandths(fp)))
        ELSE Raised

\* float(v)
ToFloat(v) ==
    CASE v.t = "int" -> PyFloat(1000 * v.n)
      [] v.t = "float" -> v
      [] v.t = "str" -> ParseFloat(v.s)
      [] OTHER -> Raised

\* float(v) if v is not None else None
FloatOrNone(v) == IF IsNone(v) THEN PyNone ELSE ToFloat(v)

UpperCase == <<"A", "B", "C", "D", "E", "F", "G", "H", "I", "J", "K", "L", "M",
               "N", "O", "P", "Q", "R", "S", "T", "U", "V", "W", "X", "Y", "Z">>
LowerCase == <<"a", "b", "c", "d", "e", "f", "g", "h", "i", "j", "k", "l", "m",
               "n", "o", "p", "q", "r", "s", "t", "u", "v", "w", "x", "y", "z">>

\* the place of an upper-case letter in the alphabet, or 0
UpperIndex(c) ==
    IF \E k \in 1..26 : UpperCase[k] = c THEN CHOOSE k \in 1..26 : UpperCase[k] = c ELSE 0

\* str.lower()
Lower(s) == [k \in 1..Len(s) |-> IF UpperIndex(s[k]) = 0 THEN s[k] ELSE LowerCase[UpperIndex(s[k])]]

\* the order of two upper-case texts under SQLite's BINARY collation
RECURSIVE TextLess(_, _)
TextLess(a, b) ==
    IF a = <<>> THEN b # <<>>
    ELSE IF b = <<>> THEN FALSE
    ELSE IF Head(a) = Head(b) THEN TextLess(Tail(a), Tail(b))
    ELSE UpperIndex(Head(a)) < UpperIndex(Head(b))

\* s.split(sep) for a one-character separator
RECURSIVE Split(_, _)
Split(s, sep) ==
    IF \E k \in 1..Len(s) : s[k] = sep
    THEN LET k == CHOOSE i \in 1..Len(s) : s[i] = sep /\ \A j \in 1..(i - 1) : s[j] # sep
         IN  <<SubSeq(s, 1, k - 1)>> \o Split(SubSeq(s, k + 1, Len(s)), sep)
    ELSE <<s>>

\* [x.strip() for x in parts if x.strip()]
RECURSIVE StripNonEmpty(_)
StripNonEmpty(parts) ==
    IF parts = <<>> THEN <<>>
    ELSE IF Strip(Head(parts)) = <<>> THEN StripNonEmpty(Tail(parts))
    ELSE <<Strip(Head(parts))>> \o StripNonEmpty(Tail(parts))

\* (v or "").strip(): a truthy value that is no text has no strip()
StripOrEmpty(v) ==
    IF ~Truthy(v) THEN PyStr(<<>>) ELSE IF IsStr(v) THEN PyStr(Strip(v.s)) ELSE Raised

\* (v or "").strip() or None
StripOrNone(v) ==
    LET x == StripOrEmpty(v) IN IF x = Raised THEN Raised ELSE IF x.s = <<>> THEN PyNone ELSE x

---------------------------------------------------------------------------
(* import_primo.py: the hierarchy rules *)

CodeLen == 7

parse_hierarchy_level(code) ==
    IF ~Truthy(code) \/ ~ReMatchDigits(Str(code), CodeLen, CodeLen)
    THEN PyNone
    ELSE LET c == Str(code)
         IN  IF EndsWith(c, <<"0", "0", "0">>) THEN PyInt(1)
             ELSE IF EndsWith(c, <<"0", "0">>) THEN PyInt(2)
             ELSE PyInt(3)

parent_code(code) ==
    LET c == Str(code)
    IN  IF ~ReMatchDigits(c, CodeLen, CodeLen) \/ EndsWith(c, <<"0", "0", "0">>)
        THEN PyNone
        ELSE IF EndsWith(c, <<"0", "0">>) THEN PyStr(Prefix(c, 4) \o <<"0", "0", "0">>)
        ELSE IF SubSeq(c, Len(c) - 1, Len(c)) # <<"0", "0">>
             THEN PyStr(Prefix(c, 5) \o <<"0", "0", "0">>)
        ELSE PyNone

---------------------------------------------------------------------------
(* Pure-function harness: the argument is drawn from bounded sets, one     *)
(* action per function applies it.                                         *)

MaxStrLen == 8

SeqsUpTo(S, n) == UNION {[1..k -> S] : k \in 0..n}

PureBase == SeqsUpTo({"0", "1", "\n"}, MaxStrLen)

PureStrings == PureBase \cup {Append(s, "x") : s \in {b \in PureBase : Len(b) < MaxStrLen}}

PureInts == {0, 110000, 1100000, 1100100, 1100110, 11001100}

PureInputs == {PyNone} \cup {PyStr(s) : s \in PureStrings} \cup {PyInt(n) : n \in PureInts}

Idle == [tool |-> "none"]

PureInit ==
    /\ fn = "input"
    /\ arg \in PureInputs
    /\ ret = PyNone
    /\ tool = "none" /\ dry_run = TRUE /\ env = Idle /\ pc = "off"
    /\ db = Idle /\ txn = Idle /\ input = Idle /\ idx = 0 /\ loc = Idle
    /\ writes = <<>> /\ runs = 0 /\ hist = Idle

CallParseHierarchyLevel ==
    /\ fn = "input"
    /\ fn' = "parse_hierarchy_level"
    /\ ret' = parse_hierarchy_level(arg)
    /\ UNCHANGED <<arg, toolVars>>

CallParentCode ==
    /\ fn = "input"
    /\ fn' = "parent_code"
    /\ ret' = parent_code(arg)
    /\ UNCHANGED <<arg, toolVars>>

PureNext == CallParseHierarchyLevel \/ CallParentCode

SpecPure == PureInit /\ [][PureNext]_vars

---------------------------------------------------------------------------
(* The database.  A table is a set of rows; `db` is what is committed,     *)
(* `txn` what the open connection sees.  sqlite3 opens a transaction at    *)
(* the first INSERT/UPDATE; it is made durable by conn.commit() only, and  *)
(* is rolled back when the connection goes away without a commit.          *)

Tables ==
    {"crops", "eppo_codes", "focus_scenarios", "focus_crops",
     "focus_sw_scenario_characteristics", "focus_crop_scenario_irrigation",
     "focus_crop_interception", "focus_crop_scenario_links",
     "reg396_commodities", "primo_commodities"}

EmptyDB == [tb \in Tables |-> {}]

NoRow == [t |-> "none"]

\* cur.fetchone() of a SELECT without ORDER BY: the matching row of least rowid
FetchOne(S, id) == IF S = {} THEN NoRow ELSE CHOOSE r \in S : \A q \in S : r[id] <= q[id]

KeyOf(r, K) == [k \in K |-> r[k]]

\* the rowid SQLite gives a new row: one more than the greatest in the table
NextRowId(rows) ==
    IF rows = {} THEN 1 ELSE (CHOOSE r \in rows : \A q \in rows : q.rowid <= r.rowid).rowid + 1

\* the row r stored under the rowid n
WithRowId(r, n) == [f \in DOMAIN r \cup {"rowid"} |-> IF f = "rowid" THEN n ELSE r[f]]

\* the columns of a stored row, without its rowid
Data(r) == [f \in DOMAIN r \ {"rowid"} |-> r[f]]

\* INSERT OR IGNORE under a UNIQUE constraint on the columns K
InsertOrIgnore(rows, r, K) ==
    IF \E q \in rows : KeyOf(q, K) = KeyOf(r, K)
    THEN rows
    ELSE rows \cup {WithRowId(r, NextRowId(rows))}

\* INSERT OR REPLACE under a UNIQUE constraint on the columns K: the row in conflict
\* is deleted and the new one gets a fresh rowid
InsertOrReplace(rows, r, K) ==
    {q \in rows : KeyOf(q, K) # KeyOf(r, K)} \cup {WithRowId(r, NextRowId(rows))}

\* the natural keys of the written tables
KeyCharacteristics == {"scenario_id"}
KeyIrrigation == {"focus_crop_id", "scenario_id"}
KeyInterception == {"focus_crop_id", "bbch_stage"}
KeyLinks == {"focus_crop_id", "scenario_id"}
KeyReg396 == {"annex1_code"}
KeyPrimo == {"primo_version", "primo_code"}

\* sqlite3.connect(path) creates the file when it is missing (with no table in it)
Connect(e) == [e EXCEPT !.db_exists = TRUE]

\* facts about the record a loop step has just handled (ghost)
NoStep ==
    [kind |-> "none", unmatched |-> FALSE, malformed |-> FALSE, raised |-> FALSE,
     expect_skips |-> 0, d_skipped |-> 0, d_writes |-> 0]

StepFacts(unmatched, malformed, raised, expect, dsk, dwr) ==
    [kind |-> "record", unmatched |-> unmatched, malformed |-> malformed,
     raised |-> raised, expect_skips |-> expect, d_skipped |-> dsk, d_writes |-> dwr]

\* what no statement of a run changes
RunFrame == UNCHANGED <<db, dry_run, tool, input, runs, pureVars>>

\* sys.exit(message) before any record is handled
Exit ==
    /\ pc' = "exited"
    /\ txn' = db
    /\ UNCHANGED <<env, idx, loc, writes, hist>>
    /\ RunFrame

\* a loop body ends (or reaches `continue`): the loop goes to its next record
Continue(newTxn, newLoc, newWrites, facts) ==
    /\ pc' = pc
    /\ idx' = idx + 1
    /\ txn' = newTxn
    /\ loc' = newLoc
    /\ writes' = newWrites
    /\ hist' = [hist EXCEPT !.last = facts]
    /\ UNCHANGED env
    /\ RunFrame

\* an uncaught exception on a connection in autocommit mode: every statement
\* executed so far has already been persisted
CrashAutocommit(facts) ==
    /\ pc' = "crashed"
    /\ db' = txn
    /\ txn' = txn
    /\ hist' = [hist EXCEPT !.last = facts]
    /\ UNCHANGED <<env, idx, loc, writes>>
    /\ UNCHANGED <<dry_run, tool, input, runs, pureVars>>

\* an exception no handler catches: the process ends with a traceback and the
\* open transaction is rolled back
Crash(facts) ==
    /\ pc' = "crashed"
    /\ txn' = db
    /\ hist' = [hist EXCEPT !.last = facts]
    /\ UNCHANGED <<env, idx, loc, writes>>
    /\ RunFrame

\* conn.commit() when the run applies, then conn.close()
EndOfBatch(next) ==
    /\ db' = IF ~dry_run THEN txn ELSE db
    /\ txn' = db'
    /\ hist' = [hist EXCEPT !.commits = IF ~dry_run THEN @ + 1 ELSE @]
    /\ pc' = next
    /\ UNCHANGED <<env, dry_run, tool, input, idx, loc, writes, runs, pureVars>>

---------------------------------------------------------------------------
(* Names used in the databases and the sources *)

Maize == <<"M", "a", "i", "z", "e">>
Vines == <<"V", "i", "n", "e", "s">>
Grass == <<"G", "r", "a", "s", "s">>
D1 == <<"D", "1">>
R1 == <<"R", "1">>
K1 == <<"K", "1">>
X9 == <<"X", "9">>

\* the columns of focus_crops that import_from_csv updates
CropParamCols ==
    {"bbch_sowing_min", "bbch_sowing_max", "bbch_harvest_min", "bbch_harvest_max",
     "canopy_type", "root_depth_m", "lai_max"}

NoParams == [c \in CropParamCols |-> PyNone]

FocusCrop(id, name) == [focus_crop_id |-> id, swash_crop_name |-> name, params |-> NoParams]
Scenario(id, code, ty) == [scenario_id |-> id, scenario_code |-> code, scenario_type_id |-> ty]

\* D1 and R1 are surface-water scenarios (type 1), K1 is a groundwater scenario
FocusBase ==
    [EmptyDB EXCEPT !["focus_scenarios"] = {Scenario(1, D1, 1), Scenario(2, R1, 1), Scenario(3, K1, 2)},
                    !["focus_crops"] = {FocusCrop(1, Maize), FocusCrop(2, Vines)}]

MaxRuns == 2
MaxBatch == 2

Terminal == {"done", "returned", "exited", "crashed"}

\* the ghost record at the start of a run
HistAtStart(d, prev) ==
    [db0 |-> d, prev |-> prev, last |-> NoStep, commits |-> 0, log |-> <<>>]
NoPrev == [dry_run |-> TRUE, pc |-> "none", loc |-> Idle]

\* the same tool is run again on the same database with the same sources
Rerun ==
    /\ tool \in {"focus", "interception", "primo", "links", "csv"}
    /\ pc \in Terminal
    /\ runs + 1 < MaxRuns
    /\ runs' = runs + 1
    /\ dry_run' \in BOOLEAN
    /\ pc' = "start"
    /\ txn' = db
    /\ idx' = 0
    /\ loc' = Idle
    /\ writes' = <<>>
    /\ hist' = HistAtStart(db, [dry_run |-> dry_run, pc |-> pc, loc |-> loc])
    /\ UNCHANGED <<db, env, tool, input, pureVars>>

\* the initial state of a tool run
ToolInit(tl, envs, dbs, inputs) ==
    /\ fn = "off" /\ arg = PyNone /\ ret = PyNone
    /\ tool = tl
    /\ dry_run \in BOOLEAN
    /\ env \in envs
    /\ pc = "start"
    /\ db \in (IF env.db_exists THEN dbs ELSE {EmptyDB})
    /\ txn = db
    /\ input \in inputs
    /\ idx = 0
    /\ loc = Idle
    /\ writes = <<>>
    /\ runs = 0
    /\ hist = HistAtStart(db, NoPrev)

\* the files and libraries a run may find; the schema is there when the file is
Envs(srcs, src2s, libs) ==
    {[db_exists |-> d, has_schema |-> d, src_exists |-> s, src2_exists |-> s2, lib |-> l] :
        d \in BOOLEAN, s \in srcs, s2 \in src2s, l \in libs}

---------------------------------------------------------------------------
(* import_interception.py *)

Stage(bbch, pct) == [bbch |-> bbch, pct |-> pct, source |-> "EFSA 2020 Table 7"]

\* lists of (bbch_stage, pct, source): all stubs (as shipped), partly filled, filled
StageLists ==
    {<<Stage(0, PyNone)>>,
     <<Stage(0, PyNone), Stage(10, PyInt(25))>>,
     <<Stage(0, PyInt(20)), Stage(10, PyNone), Stage(20, PyInt(70))>>}

CropEntries == {[crop_name |-> n, stages |-> s] : n \in {Maize, Vines, Grass}, s \in StageLists}

\* INTERCEPTION_DATA: a dict, so its crop names are distinct
InterceptionTables ==
    {d \in SeqsUpTo(CropEntries, MaxBatch) :
        \A i, j \in 1..Len(d) : i # j => d[i].crop_name # d[j].crop_name}

InterceptionDBs ==
    {FocusBase,
     [FocusBase EXCEPT !["focus_crop_interception"] =
        {WithRowId([focus_crop_id |-> 1, bbch_stage |-> 10, interception_pct |-> PyInt(90),
                    interception_source |-> "manual"], 1)}]}

InterceptionInit ==
    ToolInit("interception", Envs({TRUE}, {TRUE}, {TRUE}), InterceptionDBs,
             {[data |-> d] : d \in InterceptionTables})

\* the inner loop over one crop's stages: st = [rows, inserted, stubbed, writes]
RECURSIVE InterceptionStages(_, _, _, _)
InterceptionStages(stages, fid, dry, st) ==
    IF stages = <<>> THEN st
    ELSE LET s == Head(stages)
         IN  IF IsNone(s.pct)
             THEN InterceptionStages(Tail(stages), fid, dry, [st EXCEPT !.stubbed = @ + 1])
             ELSE IF ~dry
             THEN InterceptionStages(Tail(stages), fid, dry,
                    [st EXCEPT !.rows = InsertOrReplace(@,
                                    [focus_crop_id |-> fid, bbch_stage |-> s.bbch,
                                     interception_pct |-> s.pct,
                                     interception_source |-> s.source], KeyInterception),
                               !.inserted = @ + 1,
                               !.writes = Append(@, "INSERT OR REPLACE focus_crop_interception")])
             ELSE InterceptionStages(Tail(stages), fid, dry, st)

InterceptionStart ==
    /\ tool = "interception" /\ pc = "start"
    /\ env' = Connect(env)
    /\ txn' = db
    /\ loc' = [inserted |-> 0, stubbed |-> 0, skipped |-> 0]
    /\ idx' = 1
    /\ pc' = "loop"
    /\ UNCHANGED <<db, dry_run, tool, input, writes, runs, hist, pureVars>>

InterceptionCrop ==
    /\ tool = "interception" /\ pc = "loop" /\ idx <= Len(input.data)
    /\ LET e == input.data[idx]
           fc == FetchOne({r \in txn["focus_crops"] : r.swash_crop_name = e.crop_name},
                          "focus_crop_id")
           st == InterceptionStages(e.stages, fc.focus_crop_id, dry_run,
                     [rows |-> txn["focus_crop_interception"], inserted |-> loc.inserted,
                      stubbed |-> loc.stubbed, writes |-> writes])
       IN  IF ~env.has_schema
           THEN Crash(StepFacts(FALSE, FALSE, TRUE, 0, 0, 0))
           ELSE IF fc = NoRow
           THEN Continue(txn, [loc EXCEPT !.skipped = @ + 1], writes,
                         StepFacts(TRUE, FALSE, FALSE, 1, 1, 0))
           ELSE Continue([txn EXCEPT !["focus_crop_interception"] = st.rows],
                         [loc EXCEPT !.inserted = st.inserted, !.stubbed = st.stubbed],
                         st.writes,
                         StepFacts(FALSE, FALSE, FALSE, 0, 0, Len(st.writes) - Len(writes)))

InterceptionEnd ==
    /\ tool = "interception" /\ pc = "loop" /\ idx > Len(input.data)
    /\ EndOfBatch("done")

InterceptionNext == InterceptionStart \/ InterceptionCrop \/ InterceptionEnd \/ Rerun

SpecInterception == InterceptionInit /\ [][InterceptionNext]_vars

---------------------------------------------------------------------------
(* import_focus_sw_characteristics.py *)

SOURCE_REF == "Generic FOCUS SWS v1.4 May 2015"

\* a file that is not there
Missing == [t |-> "missing"]

CharFields ==
    {"scenario_code", "weather_dataset_name", "latitude_deg", "longitude_deg",
     "mean_annual_temp_c", "annual_rainfall_mm", "topsoil_texture",
     "topsoil_organic_carbon_pct", "slope_pct", "water_bodies"}

\* a scenario object with the given code, latitude and slope; s.get gives None for the rest
ScenarioRecord(code, lat, slope) ==
    [[f \in CharFields |-> PyNone] EXCEPT !["scenario_code"] = code,
                                        !["latitude_deg"] = lat,
                                        !["slope_pct"] = slope]

ScenarioRecords ==
    {ScenarioRecord(PyStr(D1), PyInt(52), PyNone),
     ScenarioRecord(PyStr(<<" ">> \o R1 \o <<" ">>), PyStr(<<"4", "8", ".", "5">>), PyStr(<<"2", "-", "4">>)),
     ScenarioRecord(PyStr(X9), PyInt(40), PyNone),
     ScenarioRecord(PyStr(K1), PyNone, PyNone),
     ScenarioRecord(PyStr(D1), PyStr(<<"n", "/", "a">>), PyNone),
     ScenarioRecord(PyNone, PyInt(1), PyNone)}

IrrigationRecord(code, crop, mm) == [scenario_code |-> code, crop |-> crop, irrigation_mm_annual |-> mm]

IrrigationRecords ==
    {IrrigationRecord(PyStr(D1), PyStr(Maize), PyInt(120)),
     IrrigationRecord(PyStr(<<" ">> \o R1), PyStr(Vines \o <<" ">>), PyInt(0)),
     IrrigationRecord(PyStr(D1), PyStr(Grass), PyInt(50)),
     IrrigationRecord(PyStr(K1), PyStr(Maize), PyInt(30)),
     IrrigationRecord(PyStr(D1), PyStr(Maize), PyStr(<<"n", "/", "a">>)),
     IrrigationRecord(PyStr(D1), PyNone, PyInt(10))}

Batches(R) == SeqsUpTo(R, MaxBatch)

\* the characteristics JSON: an object with a "scenarios" or an "items" array
CharFiles ==
    {[scenarios |-> PyList(b), items |-> PyNone] : b \in Batches(ScenarioRecords)}
      \cup {[scenarios |-> PyNone, items |-> PyList(<<ScenarioRecord(PyStr(D1), PyInt(52), PyNone)>>)],
            [scenarios |-> PyNone, items |-> PyNone]}

IrrFiles ==
    {[irrigation |-> PyList(b), items |-> PyNone] : b \in Batches(IrrigationRecords)}
      \cup {[irrigation |-> PyNone, items |-> PyList(<<IrrigationRecord(PyStr(D1), PyStr(Maize), PyInt(120))>>)],
            [irrigation |-> PyNone, items |-> PyNone]}

CharFileA == [scenarios |-> PyList(<<ScenarioRecord(PyStr(D1), PyInt(52), PyNone)>>), items |-> PyNone]
IrrFileA == [irrigation |-> PyList(<<IrrigationRecord(PyStr(D1), PyStr(Maize), PyInt(120))>>), items |-> PyNone]

\* the two sources of a run: every characteristics file with a fixed or missing
\* irrigation file, and the other way round
FocusInputs ==
    {[char |-> c, irr |-> i] : c \in CharFiles \cup {Missing}, i \in {IrrFileA, Missing}}
      \cup {[char |-> c, irr |-> i] : c \in {CharFileA, Missing}, i \in IrrFiles}

CharRow(sid, code, lat) ==
    [scenario_id |-> sid, scenario_code |-> code, weather_dataset_name |-> PyStr(<<>>),
     latitude_deg |-> lat, longitude_deg |-> PyNone, mean_annual_temp_c |-> PyNone,
     annual_rainfall_mm |-> PyNone, topsoil_texture |-> PyNone,
     topsoil_organic_carbon_pct |-> PyNone, slope_pct |-> PyNone, water_bodies |-> PyNone,
     source_reference |-> SOURCE_REF]

FocusDBs ==
    {FocusBase,
     [FocusBase EXCEPT
        !["focus_sw_scenario_characteristics"] = {WithRowId(CharRow(1, D1, PyFloat(10000)), 1)},
        !["focus_crop_scenario_irrigation"] =
            {WithRowId([focus_crop_id |-> 1, scenario_id |-> 1,
                        irrigation_mm_annual |-> PyFloat(5000),
                        source_reference |-> "manual"], 1)}]}

FocusInit == ToolInit("focus", Envs({TRUE}, {TRUE}, {TRUE}), FocusDBs, FocusInputs)

\* data.get("scenarios") or data.get("items") or []
Scenarios == PyOr(PyOr(input.char.scenarios, input.char.items), PyList(<<>>))
\* data.get("irrigation") or data.get("items") or []
IrrRows == PyOr(PyOr(input.irr.irrigation, input.irr.items), PyList(<<>>))

\* SELECT scenario_id FROM focus_scenarios WHERE scenario_code = ? AND scenario_type_id = 1
SelectSWScenario(d, code) ==
    FetchOne({r \in d["focus_scenarios"] : r.scenario_code = code /\ r.scenario_type_id = 1},
             "scenario_id")

\* SELECT scenario_id FROM focus_scenarios WHERE scenario_code = ?
SelectScenario(d, code) ==
    FetchOne({r \in d["focus_scenarios"] : r.scenario_code = code}, "scenario_id")

\* SELECT focus_crop_id FROM focus_crops WHERE swash_crop_name = ?
SelectFocusCrop(d, name) ==
    FetchOne({r \in d["focus_crops"] : r.swash_crop_name = name}, "focus_crop_id")

\* the values bound to the INSERT of import_characteristics
CharValues(s, sid, code) ==
    [scenario_id |-> sid, scenario_code |-> code,
     weather_dataset_name |-> StripOrEmpty(s["weather_dataset_name"]),
     latitude_deg |-> FloatOrNone(s["latitude_deg"]),
     longitude_deg |-> FloatOrNone(s["longitude_deg"]),
     mean_annual_temp_c |-> FloatOrNone(s["mean_annual_temp_c"]),
     annual_rainfall_mm |-> FloatOrNone(s["annual_rainfall_mm"]),
     topsoil_texture |-> StripOrNone(s["topsoil_texture"]),
     topsoil_organic_carbon_pct |-> FloatOrNone(s["topsoil_organic_carbon_pct"]),
     slope_pct |-> StripOrNone(s["slope_pct"]),
     water_bodies |-> StripOrNone(s["water_bodies"]),
     source_reference |-> SOURCE_REF]

\* one of the bound values could not be computed
AnyRaised(row) == \E f \in CharFields \ {"scenario_code"} : row[f] = Raised

\* a main that does not look for the database file
FocusMainStartUnchecked ==
    /\ tool = "focus" /\ pc = "start"
    /\ pc' = "char_begin"
    /\ UNCHANGED <<env, txn, idx, loc, writes, hist>>
    /\ RunFrame

\* main: the database file must exist
FocusMainStart ==
    /\ tool = "focus" /\ pc = "start"
    /\ IF ~env.db_exists
       THEN Exit
       ELSE /\ pc' = "char_begin"
            /\ UNCHANGED <<env, txn, idx, loc, writes, hist>>
            /\ RunFrame

\* main: import_characteristics when its file exists, up to the loop
CharBegin ==
    /\ tool = "focus" /\ pc = "char_begin"
    /\ IF input.char = Missing
       THEN /\ pc' = "irr_begin"
            /\ UNCHANGED <<env, txn, idx, loc, writes, hist>>
            /\ RunFrame
       ELSE IF ~Truthy(Scenarios)
       THEN Exit
       ELSE /\ pc' = "char_loop"
            /\ env' = Connect(env)
            /\ txn' = db
            /\ idx' = 1
            /\ loc' = [updated |-> 0]
            /\ hist' = [hist EXCEPT !.last = NoStep]
            /\ UNCHANGED writes
            /\ RunFrame

CharStep ==
    /\ tool = "focus" /\ pc = "char_loop" /\ idx <= Len(Scenarios.l)
    /\ LET s == Scenarios.l[idx]
           code == StripOrEmpty(s["scenario_code"])
           row == SelectSWScenario(txn, code.s)
           vals == CharValues(s, row.scenario_id, code.s)
           bad == AnyRaised(CharValues(s, 0, <<>>))
       IN  IF code = Raised
           THEN Crash(StepFacts(FALSE, TRUE, TRUE, 0, 0, 0))
           ELSE IF code.s = <<>>
           THEN Continue(txn, loc, writes, StepFacts(FALSE, bad, FALSE, 0, 0, 0))
           ELSE IF row = NoRow
           THEN Continue(txn, loc, writes, StepFacts(TRUE, bad, FALSE, 1, 0, 0))
           ELSE IF dry_run
           THEN Continue(txn, [loc EXCEPT !.updated = @ + 1], writes,
                         StepFacts(FALSE, bad, FALSE, 0, 0, 0))
           ELSE IF AnyRaised(vals)
           THEN Crash(StepFacts(FALSE, TRUE, TRUE, 0, 0, 0))
           ELSE Continue([txn EXCEPT !["focus_sw_scenario_characteristics"] =
                                InsertOrReplace(@, vals, KeyCharacteristics)],
                         [loc EXCEPT !.updated = @ + 1],
                         Append(writes, "INSERT OR REPLACE focus_sw_scenario_characteristics"),
                         StepFacts(FALSE, FALSE, FALSE, 0, 0, 1))

CharEnd ==
    /\ tool = "focus" /\ pc = "char_loop" /\ idx > Len(Scenarios.l)
    /\ EndOfBatch("irr_begin")

\* main: import_irrigation when its file exists, up to the loop
IrrBegin ==
    /\ tool = "focus" /\ pc = "irr_begin"
    /\ IF input.irr = Missing
       THEN /\ pc' = "done"
            /\ UNCHANGED <<env, txn, idx, loc, writes, hist>>
            /\ RunFrame
       ELSE IF ~Truthy(IrrRows)
       THEN Exit
       ELSE /\ pc' = "irr_loop"
            /\ env' = Connect(env)
            /\ txn' = db
            /\ idx' = 1
            /\ loc' = [inserted |-> 0, skipped |-> <<>>]
            /\ hist' = [hist EXCEPT !.last = NoStep]
            /\ UNCHANGED writes
            /\ RunFrame

IrrStep ==
    /\ tool = "focus" /\ pc = "irr_loop" /\ idx <= Len(IrrRows.l)
    /\ LET r == IrrRows.l[idx]
           code == StripOrEmpty(r.scenario_code)
           crop == StripOrEmpty(r.crop)
           mm == r.irrigation_mm_annual
           sc == SelectSWScenario(txn, code.s)
           fc == SelectFocusCrop(txn, crop.s)
           bad == ~IsNone(mm) /\ ToFloat(mm) = Raised
       IN  IF code = Raised \/ crop = Raised
           THEN Crash(StepFacts(FALSE, TRUE, TRUE, 0, 0, 0))
           ELSE IF code.s = <<>> \/ crop.s = <<>> \/ IsNone(mm)
           THEN Continue(txn, loc, writes, StepFacts(FALSE, bad, FALSE, 0, 0, 0))
           ELSE IF sc = NoRow \/ fc = NoRow
           THEN Continue(txn, [loc EXCEPT !.skipped = Append(@, <<code.s, crop.s>>)], writes,
                         StepFacts(TRUE, bad, FALSE, 1, 1, 0))
           ELSE IF dry_run
           THEN Continue(txn, [loc EXCEPT !.inserted = @ + 1], writes,
                         StepFacts(FALSE, bad, FALSE, 0, 0, 0))
           ELSE IF ToFloat(mm) = Raised
           THEN Crash(StepFacts(FALSE, TRUE, TRUE, 0, 0, 0))
           ELSE Continue([txn EXCEPT !["focus_crop_scenario_irrigation"] =
                                InsertOrReplace(@,
                                    [focus_crop_id |-> fc.focus_crop_id,
                                     scenario_id |-> sc.scenario_id,
                                     irrigation_mm_annual |-> ToFloat(mm),
                                     source_reference |-> SOURCE_REF], KeyIrrigation)],
                         [loc EXCEPT !.inserted = @ + 1],
                         Append(writes, "INSERT OR REPLACE focus_crop_scenario_irrigation"),
                         StepFacts(FALSE, FALSE, FALSE, 0, 0, 1))

IrrEnd ==
    /\ tool = "focus" /\ pc = "irr_loop" /\ idx > Len(IrrRows.l)
    /\ EndOfBatch("done")

FocusNext ==
    \/ FocusMainStart \/ CharBegin \/ CharStep \/ CharEnd
    \/ IrrBegin \/ IrrStep \/ IrrEnd \/ Rerun

SpecFocus == FocusInit /\ [][FocusNext]_vars

---------------------------------------------------------------------------
(* import_swash_json.py *)

LinkItem(crop, scenarios) == [crop |-> crop, scenarios |-> scenarios]

LinkItems ==
    {LinkItem(PyStr(Maize), PyList(<<PyStr(D1), PyStr(R1)>>)),
     LinkItem(PyStr(Vines \o <<" ">>), PyStr(D1 \o <<",", " ">> \o X9 \o <<",">>)),
     LinkItem(PyStr(Grass), PyList(<<PyStr(D1)>>)),
     LinkItem(PyStr(Maize), PyList(<<PyStr(K1), PyInt(7)>>)),
     LinkItem(PyStr(Maize), PyNone)}

LinkFiles ==
    {[crop_scenarios |-> PyList(b), items |-> PyNone] : b \in Batches(LinkItems)}
      \cup {[crop_scenarios |-> PyNone,
             items |-> PyList(<<LinkItem(PyStr(Maize), PyList(<<PyStr(D1), PyStr(R1)>>))>>)],
            [crop_scenarios |-> PyNone, items |-> PyNone]}

Link(fid, sid, wb, dflt) ==
    [focus_crop_id |-> fid, scenario_id |-> sid, waterbody_type |-> wb, is_default_run |-> dflt]

LinkDBs ==
    {FocusBase,
     [FocusBase EXCEPT !["focus_crop_scenario_links"] =
        {WithRowId(Link(1, 1, PyStr(<<"p", "o", "n", "d">>), 0), 1)}]}

LinksInit ==
    ToolInit("links", Envs({TRUE}, {TRUE}, {TRUE}), LinkDBs,
             {[json |-> f] : f \in LinkFiles \cup {Missing}})

\* data.get("crop_scenarios") or data.get("items")
Items == PyOr(input.json.crop_scenarios, input.json.items)

\* the inner loop over one crop's scenario codes:
\* st = [rows, inserted, skipped, writes, raised]
RECURSIVE LinkScenarios(_, _, _, _, _, _)
LinkScenarios(codes, crop_name, fid, d, dry, st) ==
    IF codes = <<>> THEN st
    ELSE LET c == Head(codes)
             sc == SelectScenario(d, Strip(c.s))
         IN  IF ~IsStr(c) THEN [st EXCEPT !.raised = TRUE]
             ELSE IF sc = NoRow
             THEN LinkScenarios(Tail(codes), crop_name, fid, d, dry,
                    [st EXCEPT !.skipped = Append(@, <<crop_name, c.s>>)])
             ELSE IF dry
             THEN LinkScenarios(Tail(codes), crop_name, fid, d, dry,
                    [st EXCEPT !.inserted = @ + 1])
             ELSE LinkScenarios(Tail(codes), crop_name, fid, d, dry,
                    [st EXCEPT !.inserted = @ + 1,
                               !.rows = InsertOrIgnore(@, Link(fid, sc.scenario_id, PyNone, 1),
                                                       KeyLinks),
                               !.writes = Append(@, "INSERT OR IGNORE focus_crop_scenario_links")])

\* the scenario codes of an item that have no row in focus_scenarios
UnmatchedCodes(codes, d) ==
    {k \in 1..Len(codes) : IsStr(codes[k]) /\ SelectScenario(d, Strip(codes[k].s)) = NoRow}

LinksStart ==
    /\ tool = "links" /\ pc = "start"
    /\ IF input.json = Missing
       THEN /\ pc' = "crashed"
            /\ UNCHANGED <<env, txn, idx, loc, writes, hist>>
            /\ RunFrame
       ELSE IF ~Truthy(Items)
       THEN Exit
       ELSE /\ pc' = "loop"
            /\ env' = Connect(env)
            /\ txn' = db
            /\ idx' = 1
            /\ loc' = [inserted |-> 0, skipped |-> <<>>]
            /\ UNCHANGED <<writes, hist>>
            /\ RunFrame

LinksItem ==
    /\ tool = "links" /\ pc = "loop" /\ idx <= Len(Items.l)
    /\ LET row == Items.l[idx]
           crop_name == StripOrEmpty(row.crop)
           codes == IF IsStr(row.scenarios)
                    THEN [k \in 1..Len(StripNonEmpty(Split(row.scenarios.s, ","))) |->
                            PyStr(StripNonEmpty(Split(row.scenarios.s, ","))[k])]
                    ELSE row.scenarios.l
           fc == SelectFocusCrop(txn, crop_name.s)
           st == LinkScenarios(codes, crop_name.s, fc.focus_crop_id, txn, dry_run,
                     [rows |-> txn["focus_crop_scenario_links"], inserted |-> loc.inserted,
                      skipped |-> loc.skipped, writes |-> writes, raised |-> FALSE])
           bad == row.scenarios.t = "list" /\ \E k \in 1..Len(codes) : ~IsStr(codes[k])
       IN  IF crop_name = Raised
           THEN Crash(StepFacts(FALSE, TRUE, TRUE, 0, 0, 0))
           ELSE IF crop_name.s = <<>> \/ ~Truthy(row.scenarios)
           THEN Continue(txn, loc, writes, StepFacts(FALSE, FALSE, FALSE, 0, 0, 0))
           ELSE IF row.scenarios.t \notin {"str", "list"}
           THEN Crash(StepFacts(FALSE, TRUE, TRUE, 0, 0, 0))
           ELSE IF ~env.has_schema
           THEN Crash(StepFacts(FALSE, FALSE, TRUE, 0, 0, 0))
           ELSE IF fc = NoRow
           THEN Continue(txn, [loc EXCEPT !.skipped = Append(@, <<crop_name.s, PyNone>>)], writes,
                         StepFacts(TRUE, bad, FALSE, 1, 1, 0))
           ELSE IF st.raised
           THEN Crash(StepFacts(UnmatchedCodes(codes, txn) # {}, TRUE, TRUE,
                                Cardinality(UnmatchedCodes(codes, txn)), 0, 0))
           ELSE Continue([txn EXCEPT !["focus_crop_scenario_links"] = st.rows],
                         [loc EXCEPT !.inserted = st.inserted, !.skipped = st.skipped],
                         st.writes,
                         StepFacts(UnmatchedCodes(codes, txn) # {}, FALSE, FALSE,
                                   Cardinality(UnmatchedCodes(codes, txn)),
                                   Len(st.skipped) - Len(loc.skipped),
                                   Len(st.writes) - Len(writes)))

LinksEnd ==
    /\ tool = "links" /\ pc = "loop" /\ idx > Len(Items.l)
    /\ EndOfBatch("done")

LinksNext == LinksStart \/ LinksItem \/ LinksEnd \/ Rerun

SpecLinks == LinksInit /\ [][LinksNext]_vars

---------------------------------------------------------------------------
(* import_swash_mdb.py: import_from_csv *)

\* a column the CSV header does not have
Absent == [t |-> "absent"]

\* row.get(column, default)
Get(row, column, default) == IF row[column] = Absent THEN default ELSE row[column]

\* v.strip() of a CSV field (None, the value of a field a short line lacks, has no strip())
FieldStrip(v) == IF IsStr(v) THEN PyStr(Strip(v.s)) ELSE Raised

T(s) == PyStr(s)
Blank == PyStr(<<>>)

SwashCropColumns ==
    {"CropName", "BBCHemergenceMin", "BBCHemergenceMax", "BBCHharvestMin",
     "BBCHharvestMax", "CanopyType", "RootDepth", "LAImax"}

\* SWASH_CROP_COLS: the CSV column of each key, and the focus_crops column it updates
IntKeys == <<"BBCHemergenceMin", "BBCHemergenceMax", "BBCHharvestMin", "BBCHharvestMax">>
IntTargets == <<"bbch_sowing_min", "bbch_sowing_max", "bbch_harvest_min", "bbch_harvest_max">>

CropCsvRow(name, emmin, canopy, root) ==
    [[c \in SwashCropColumns |-> Blank] EXCEPT !["CropName"] = name,
                                             !["BBCHemergenceMin"] = emmin,
                                             !["CanopyType"] = canopy,
                                             !["RootDepth"] = root]

CropCsvRows ==
    {CropCsvRow(T(Maize), T(<<"1", "0">>), T(<<"t", "a", "l", "l">>), T(<<"1", ".", "2">>)),
     CropCsvRow(T(Vines), T(<<"x", "1">>), Blank, Blank),
     CropCsvRow(T(Grass), T(<<"5">>), Blank, Blank),
     CropCsvRow(Blank, T(<<"7">>), Blank, Blank),
     CropCsvRow(T(<<" ">> \o Maize), Blank, Blank, Blank),
     CropCsvRow(T(Vines), T(<<"9">>), Blank, T(<<"d", "e", "e", "p">>))}

CsCsvRow(crop, scen, wb, dflt) ==
    [CropName |-> crop, ScenarioCode |-> scen, WaterbodyType |-> wb, IsDefault |-> dflt]

CsCsvRows ==
    {CsCsvRow(T(Maize), T(D1), T(<<"p", "o", "n", "d">>), T(<<"1">>)),
     CsCsvRow(T(Vines), T(R1 \o <<" ">>), Blank, Blank),
     CsCsvRow(T(Grass), T(D1), Blank, T(<<"0">>)),
     CsCsvRow(T(Maize), T(X9), Blank, T(<<"y", "e", "s">>)),
     CsCsvRow(T(Maize), T(K1), Blank, Absent),
     CsCsvRow(T(Vines), T(D1), Blank, T(<<"n", "o">>))}

CropCsvA == <<CropCsvRow(T(Maize), T(<<"1", "0">>), T(<<"t", "a", "l", "l">>), T(<<"1", ".", "2">>))>>
CsCsvA == <<CsCsvRow(T(Maize), T(D1), T(<<"p", "o", "n", "d">>), T(<<"1">>))>>

\* load_csv(path): the list of the file's rows
CsvFiles(R) == {PyList(b) : b \in Batches(R)}

\* --csv-dir: no MDB is read
NotUsed == [t |-> "unused"]
\* --mdb: a file that pyodbc.connect opens
Opened == [t |-> "opened"]

\* with --mdb the two files are the ones import_from_mdb exports
CsvInputs ==
    {[crop_csv |-> c, cs_csv |-> k, mdb |-> NotUsed] :
        c \in CsvFiles(CropCsvRows) \cup {Missing}, k \in {PyList(CsCsvA), Missing}}
      \cup {[crop_csv |-> c, cs_csv |-> k, mdb |-> NotUsed] :
        c \in {PyList(CropCsvA), PyList(<<>>)}, k \in CsvFiles(CsCsvRows)}
      \cup {[crop_csv |-> PyList(CropCsvA), cs_csv |-> PyList(CsCsvA), mdb |-> m] :
        m \in {Opened, Missing}}

\* pyodbc matters only with --mdb
CsvInit ==
    /\ ToolInit("csv", Envs({TRUE}, {TRUE}, BOOLEAN), LinkDBs, CsvInputs)
    /\ input.mdb = NotUsed => env.lib

\* the `updates` dict of one crop row: [cols: column -> value, raised]
RECURSIVE IntUpdates(_, _, _)
IntUpdates(row, k, u) ==
    IF k > Len(IntKeys) THEN u
    ELSE LET v == FieldStrip(Get(row, IntKeys[k], Blank))
         IN  IF v = Raised THEN [u EXCEPT !.raised = TRUE]
             ELSE IF v.s = <<>> THEN IntUpdates(row, k + 1, u)
             ELSE IF ParseInt(v.s) = Raised THEN [u EXCEPT !.raised = TRUE]
             ELSE IntUpdates(row, k + 1,
                             [u EXCEPT !.cols = [c \in DOMAIN @ \cup {IntTargets[k]} |->
                                 IF c = IntTargets[k] THEN ParseInt(v.s) ELSE @[c]]])

\* one further entry of `updates`: conv is "text" or "float"
AddUpdate(u, row, column, target, conv) ==
    LET v == FieldStrip(Get(row, column, Blank))
        x == IF conv = "float" THEN ParseFloat(v.s) ELSE v
    IN  IF u.raised THEN u
        ELSE IF v = Raised THEN [u EXCEPT !.raised = TRUE]
        ELSE IF v.s = <<>> THEN u
        ELSE IF x = Raised THEN [u EXCEPT !.raised = TRUE]
        ELSE [u EXCEPT !.cols = [c \in DOMAIN @ \cup {target} |-> IF c = target THEN x ELSE @[c]]]

CropUpdates(row) ==
    AddUpdate(AddUpdate(AddUpdate(IntUpdates(row, 1, [cols |-> <<>>, raised |-> FALSE]),
                                  row, "CanopyType", "canopy_type", "text"),
                        row, "RootDepth", "root_depth_m", "float"),
              row, "LAImax", "lai_max", "float")

\* UPDATE focus_crops SET <updates> WHERE focus_crop_id = fid
UpdateFocusCrop(rows, fid, cols) ==
    {IF r.focus_crop_id = fid
     THEN [r EXCEPT !.params = [c \in CropParamCols |-> IF c \in DOMAIN cols THEN cols[c] ELSE @[c]]]
     ELSE r : r \in rows}

\* int(row.get("IsDefault", "1") or 1)
IsDefaultOf(row) ==
    LET v == PyOr(Get(row, "IsDefault", T(<<"1">>)), PyInt(1))
    IN  IF v.t = "int" THEN v ELSE ParseInt(v.s)

\* import_from_mdb up to its call of import_from_csv
MdbStart ==
    /\ tool = "csv" /\ pc = "start" /\ input.mdb # NotUsed
    /\ IF ~env.lib \/ input.mdb = Missing
       THEN Exit
       ELSE /\ pc' = "import_from_csv"
            /\ UNCHANGED <<env, txn, idx, loc, writes, hist>>
            /\ RunFrame

CsvStart ==
    /\ tool = "csv"
    /\ \/ pc = "start" /\ input.mdb = NotUsed
       \/ pc = "import_from_csv"
    /\ IF input.crop_csv = Missing \/ input.cs_csv = Missing
       THEN Exit
       ELSE /\ pc' = "crop_loop"
            /\ env' = Connect(env)
            /\ txn' = db
            /\ idx' = 1
            /\ loc' = [updated_crops |-> 0, skipped_crops |-> <<>>, inserted |-> 0, skipped |-> <<>>]
            /\ UNCHANGED <<writes, hist>>
            /\ RunFrame

CsvCrop ==
    /\ tool = "csv" /\ pc = "crop_loop" /\ idx <= Len(input.crop_csv.l)
    /\ LET row == input.crop_csv.l[idx]
           name == FieldStrip(Get(row, "CropName", Blank))
           fc == SelectFocusCrop(txn, name.s)
           u == CropUpdates(row)
       IN  IF name = Raised
           THEN Crash(StepFacts(FALSE, TRUE, TRUE, 0, 0, 0))
           ELSE IF name.s = <<>>
           THEN Continue(txn, loc, writes, StepFacts(FALSE, u.raised, FALSE, 0, 0, 0))
           ELSE IF ~env.has_schema
           THEN Crash(StepFacts(FALSE, FALSE, TRUE, 0, 0, 0))
           ELSE IF fc = NoRow
           THEN Continue(txn, [loc EXCEPT !.skipped_crops = Append(@, name.s)], writes,
                         StepFacts(TRUE, u.raised, FALSE, 1, 1, 0))
           ELSE IF u.raised
           THEN Crash(StepFacts(FALSE, TRUE, TRUE, 0, 0, 0))
           ELSE IF DOMAIN u.cols # {} /\ ~dry_run
           THEN Continue([txn EXCEPT !["focus_crops"] = UpdateFocusCrop(@, fc.focus_crop_id, u.cols)],
                         [loc EXCEPT !.updated_crops = @ + 1],
                         Append(writes, "UPDATE focus_crops"),
                         StepFacts(FALSE, FALSE, FALSE, 0, 0, 1))
           ELSE Continue(txn, loc, writes, StepFacts(FALSE, FALSE, FALSE, 0, 0, 0))

\* the crop loop is over: its summary is printed and the link loop begins
CsvCropsDone ==
    /\ tool = "csv" /\ pc = "crop_loop" /\ idx > Len(input.crop_csv.l)
    /\ pc' = "link_loop"
    /\ idx' = 1
    /\ hist' = [hist EXCEPT !.last = NoStep]
    /\ UNCHANGED <<env, txn, loc, writes>>
    /\ RunFrame

CsvLink ==
    /\ tool = "csv" /\ pc = "link_loop" /\ idx <= Len(input.cs_csv.l)
    /\ LET row == input.cs_csv.l[idx]
           crop_name == FieldStrip(Get(row, "CropName", Blank))
           scen_code == FieldStrip(Get(row, "ScenarioCode", Blank))
           waterbody == FieldStrip(Get(row, "WaterbodyType", Blank))
           is_default == IsDefaultOf(row)
           fc == SelectFocusCrop(txn, crop_name.s)
           sc == SelectScenario(txn, scen_code.s)
           textual == crop_name # Raised /\ scen_code # Raised /\ waterbody # Raised
           unmatched == textual /\ env.has_schema /\ (fc = NoRow \/ sc = NoRow)
           n == IF unmatched THEN 1 ELSE 0
       IN  IF ~textual \/ is_default = Raised
           THEN Crash(StepFacts(unmatched, TRUE, TRUE, n, 0, 0))
           ELSE IF ~env.has_schema
           THEN Crash(StepFacts(FALSE, FALSE, TRUE, 0, 0, 0))
           ELSE IF fc = NoRow \/ sc = NoRow
           THEN Continue(txn, [loc EXCEPT !.skipped = Append(@, <<crop_name.s, scen_code.s>>)],
                         writes, StepFacts(TRUE, FALSE, FALSE, 1, 1, 0))
           ELSE IF ~dry_run
           THEN Continue([txn EXCEPT !["focus_crop_scenario_links"] =
                                InsertOrIgnore(@, Link(fc.focus_crop_id, sc.scenario_id,
                                                       waterbody, is_default.n), KeyLinks)],
                         [loc EXCEPT !.inserted = @ + 1],
                         Append(writes, "INSERT OR IGNORE focus_crop_scenario_links"),
                         StepFacts(FALSE, FALSE, FALSE, 0, 0, 1))
           ELSE Continue(txn, loc, writes, StepFacts(FALSE, FALSE, FALSE, 0, 0, 0))

CsvEnd ==
    /\ tool = "csv" /\ pc = "link_loop" /\ idx > Len(input.cs_csv.l)
    /\ EndOfBatch("done")

CsvNext == MdbStart \/ CsvStart \/ CsvCrop \/ CsvCropsDone \/ CsvLink \/ CsvEnd \/ Rerun

SpecCsv == CsvInit /\ [][CsvNext]_vars

---------------------------------------------------------------------------
(* import_primo.py: import_primo *)

PLACEHOLDER == "Unknown (unmapped)"
REG_VERSION == "Reg (EC) No 396/2005 (as in PRIMo Rev 3.1)"
PRIMO_VERSION == "Rev 3.1"
PreviewMax == 10

Crop(id, name, sci) == [crop_id |-> id, common_name_en |-> name, scientific_name |-> sci]

\* a sheet row after the header rows: the cells of columns A to D
Cells(code, name, primo, weight) == <<code, name, primo, weight>>

Citrus == <<"C", "i", "t">>
Grapefruit == <<"G", "r", "a">>

C0110000 == <<"0", "1", "1", "0", "0", "0", "0">>
C0110100 == <<"0", "1", "1", "0", "1", "0", "0">>

SheetRows ==
    {Cells(PyStr(C0110000), PyStr(Citrus), PyStr(Citrus \o <<" ">>), PyInt(100)),
     Cells(PyInt(110010), PyStr(Grapefruit), PyStr(Grapefruit), PyNone),
     Cells(PyStr(C0110100), PyStr(<<" ">> \o Citrus), PyNone, PyInt(5)),
     Cells(PyNone, PyNone, PyNone, PyNone),
     Cells(PyStr(<<"0", "1", "1", "A">>), PyStr(Citrus), PyStr(Citrus), PyStr(<<"n", "/", "a">>)),
     Cells(PyStr(C0110000), PyStr(Grapefruit), PyStr(Grapefruit), PyStr(<<"2", ".", "5">>)),
     Cells(PyStr(<<"0", "1", "1", "A">>), PyStr(Grapefruit), PyNone, PyNone)}

\* the workbook: missing, without the 'Commodity list' sheet, or with its rows
Workbooks ==
    {Missing, [has_sheet |-> FALSE, rows |-> <<>>]}
      \cup {[has_sheet |-> TRUE, rows |-> b] : b \in Batches(SheetRows)}

Reg396Row(crop_id, code, name, level, parent) ==
    [crop_id |-> crop_id, annex1_code |-> code, annex1_name |-> name,
     hierarchy_level |-> level, parent_annex1_code |-> parent,
     regulation_version |-> REG_VERSION]

PrimoRowOf(crop_id, code, name, weight) ==
    [crop_id |-> crop_id, primo_version |-> PRIMO_VERSION, primo_code |-> code,
     primo_name |-> name, unit_weight_g |-> weight]

\* databases without the placeholder crop, with it, and with it where a commodity
\* has been re-pointed by hand to a real crop
PrimoDBs ==
    {[EmptyDB EXCEPT !["crops"] = {Crop(1, "Maize", PyNone)}],
     [EmptyDB EXCEPT !["crops"] = {Crop(1, "Maize", PyNone), Crop(2, PLACEHOLDER, PyNone)}],
     [EmptyDB EXCEPT !["crops"] = {Crop(1, "Maize", PyNone), Crop(2, PLACEHOLDER, PyNone)},
                     !["reg396_commodities"] = {WithRowId(Reg396Row(1, C0110000, Citrus, 1, PyNone), 1)}]}

PrimoInit ==
    ToolInit("primo", Envs({TRUE}, {TRUE}, BOOLEAN), PrimoDBs, {[xlsx |-> w] : w \in Workbooks})

\* str(cell or "").strip()
CellText(v) == IF ~Truthy(v) THEN <<>> ELSE Strip(Str(v))

\* annex1_code left as the cell gives it
NormaliseCodeUnpadded(code) == code

\* annex1_code after the zero-padding of an all-digit code
NormaliseCode(code) == IF ReMatchDigits(code, 1, CodeLen) THEN ZFill(code, CodeLen) ELSE code

\* float(unit_weight) if unit_weight else None
UnitWeight(v) == IF ~Truthy(v) THEN PyNone ELSE ToFloat(v)

\* the openpyxl check, the workbook, the connection and the placeholder crop.
\* The INSERT of the placeholder (lines 104-109) is issued whatever dry_run is.  Its
\* VALUES list ends in two adjacent string literals, which SQLite does not join:
\* cur.execute raises sqlite3.OperationalError (syntax error), nothing is inserted
\* and nothing catches the exception.
PrimoStart ==
    /\ tool = "primo" /\ pc = "start"
    /\ LET found == FetchOne({r \in db["crops"] : r.common_name_en = PLACEHOLDER}, "crop_id")
       IN  IF ~env.lib
           THEN Exit
           ELSE IF input.xlsx = Missing
           THEN /\ pc' = "crashed"
                /\ UNCHANGED <<env, txn, idx, loc, writes, hist>>
                /\ RunFrame
           ELSE IF ~input.xlsx.has_sheet
           THEN Exit
           ELSE IF ~env.has_schema
           THEN /\ pc' = "crashed"
                /\ env' = Connect(env)
                /\ UNCHANGED <<txn, idx, loc, writes, hist>>
                /\ RunFrame
           ELSE IF found = NoRow
           THEN /\ pc' = "crashed"
                /\ env' = Connect(env)
                /\ writes' = <<"INSERT crops">>
                /\ UNCHANGED <<txn, idx, loc, hist>>
                /\ RunFrame
           ELSE /\ pc' = "parse"
                /\ env' = Connect(env)
                /\ idx' = 1
                /\ txn' = db
                /\ loc' = [unknown_crop_id |-> found.crop_id,
                           reg396_rows |-> <<>>, primo_rows |-> <<>>, preview_count |-> 0]
                /\ UNCHANGED <<writes, hist>>
                /\ RunFrame

\* one sheet row of the parsing loop
PrimoParseRow ==
    /\ tool = "primo" /\ pc = "parse" /\ idx <= Len(input.xlsx.rows)
    /\ LET row == input.xlsx.rows[idx]
           annex1_name == CellText(row[2])
           primo_name == CellText(row[3])
           annex1_code == NormaliseCode(CellText(row[1]))
           hlevel == parse_hierarchy_level(PyStr(annex1_code))
           pcode == parent_code(PyStr(annex1_code))
           weight == UnitWeight(row[4])
           reg == Reg396Row(loc.unknown_crop_id, annex1_code, annex1_name,
                            IF Truthy(hlevel) THEN hlevel.n ELSE 3, pcode)
           pr == PrimoRowOf(loc.unknown_crop_id, annex1_code, primo_name, weight)
           shown == IF loc.preview_count < PreviewMax THEN loc.preview_count + 1
                    ELSE loc.preview_count
           bad == weight = Raised
       IN  IF ~\E k \in 1..4 : Truthy(row[k])
           THEN Continue(txn, loc, writes, StepFacts(FALSE, FALSE, FALSE, 0, 0, 0))
           ELSE IF CellText(row[1]) = <<>> \/ annex1_name = <<>>
           THEN Continue(txn, loc, writes, StepFacts(FALSE, bad, FALSE, 0, 0, 0))
           ELSE IF primo_name = <<>>
           THEN Continue(txn, [loc EXCEPT !.reg396_rows = Append(@, reg), !.preview_count = shown],
                         writes, StepFacts(FALSE, bad, FALSE, 0, 0, 0))
           ELSE IF weight = Raised
           THEN Crash(StepFacts(FALSE, TRUE, TRUE, 0, 0, 0))
           ELSE Continue(txn, [loc EXCEPT !.reg396_rows = Append(@, reg),
                                          !.primo_rows = Append(@, pr),
                                          !.preview_count = shown],
                         writes, StepFacts(FALSE, FALSE, FALSE, 0, 0, 0))

\* the same loop with a plain INSERT
RECURSIVE InsertAllPlain(_, _, _)
InsertAllPlain(rows, new, K) ==
    IF new = <<>> THEN rows
    ELSE InsertAllPlain(rows \cup {WithRowId(Head(new), NextRowId(rows))}, Tail(new), K)

\* the same loop with INSERT OR REPLACE
RECURSIVE InsertAllOrReplace(_, _, _)
InsertAllOrReplace(rows, new, K) ==
    IF new = <<>> THEN rows ELSE InsertAllOrReplace(InsertOrReplace(rows, Head(new), K), Tail(new), K)

\* the INSERT OR IGNORE of every row of a list, in order
RECURSIVE InsertAllOrIgnore(_, _, _)
InsertAllOrIgnore(rows, new, K) ==
    IF new = <<>> THEN rows ELSE InsertAllOrIgnore(InsertOrIgnore(rows, Head(new), K), Tail(new), K)

\* the sheet is read: a preview run returns here
PrimoParsed ==
    /\ tool = "primo" /\ pc = "parse" /\ idx > Len(input.xlsx.rows)
    /\ IF dry_run
       THEN /\ pc' = "returned"
            /\ txn' = db
            /\ UNCHANGED <<env, idx, loc, writes, hist>>
            /\ RunFrame
       ELSE /\ pc' = "insert"
            /\ UNCHANGED <<env, txn, idx, loc, writes, hist>>
            /\ RunFrame

\* the two insert loops, the commit and the close
PrimoInsert ==
    /\ tool = "primo" /\ pc = "insert"
    /\ db' = [txn EXCEPT
                !["reg396_commodities"] = InsertAllOrIgnore(@, loc.reg396_rows, KeyReg396),
                !["primo_commodities"] = InsertAllOrIgnore(@, loc.primo_rows, KeyPrimo)]
    /\ txn' = db'
    /\ writes' = writes
                   \o [k \in 1..Len(loc.reg396_rows) |-> "INSERT OR IGNORE reg396_commodities"]
                   \o [k \in 1..Len(loc.primo_rows) |-> "INSERT OR IGNORE primo_commodities"]
    /\ loc' = [unknown_crop_id |-> loc.unknown_crop_id,
               inserted_r |-> Len(loc.reg396_rows), skipped_r |-> 0,
               inserted_p |-> Len(loc.primo_rows), skipped_p |-> 0]
    /\ hist' = [hist EXCEPT !.commits = @ + 1]
    /\ pc' = "done"
    /\ UNCHANGED <<env, dry_run, tool, input, idx, runs, pureVars>>

PrimoNext == PrimoStart \/ PrimoParseRow \/ PrimoParsed \/ PrimoInsert \/ Rerun

SpecPrimo == PrimoInit /\ [][PrimoNext]_vars

---------------------------------------------------------------------------
(* eppo_verify.py: verify_codes *)

ZM == <<"Z", "M">>
ZA == <<"Z", "A">>
VV == <<"V", "V">>

NameMa == <<"M", "a">>
NameMA == <<"M", "A">>
NameSw == <<"S", "w">>
NameGr == <<"g", "r">>
SciZea == <<"Z", "e", "a">>

EppoCode(id, code, name, crop_id) ==
    [eppo_code_id |-> id, eppo_code |-> code, eppo_name |-> name, crop_id |-> crop_id]

VerifyDBs ==
    {[EmptyDB EXCEPT !["crops"] = {Crop(1, "Maize", PyNone), Crop(2, "Vines", PyStr(<<"V", "i", "t">>))},
                     !["eppo_codes"] = {EppoCode(1, ZM, PyStr(NameMa), 1),
                                        EppoCode(2, VV, PyStr(NameGr), 2)}],
     [EmptyDB EXCEPT !["crops"] = {Crop(1, "Maize", PyStr(<<>>))},
                     !["eppo_codes"] = {EppoCode(1, ZM, PyStr(NameSw), 1),
                                        EppoCode(2, ZA, PyNone, 1)}]}

VerifyInit == ToolInit("verify", Envs({TRUE}, {TRUE}, BOOLEAN), VerifyDBs, {[token |-> "t"]})

\* what a remote call may give: an exception (raise_for_status, time-out, ...)
Fail == [t |-> "fail"]
\* JSON of another shape than the code expects
BadShape == [t |-> "bad"]

NameEntry(lang, pref, full) == [langiso |-> lang, preferred |-> pref, fullname |-> full]

\* GET /taxon/{code}: the fullname, None for a null one, Absent when the key is missing
TaxonReplies == {Fail, BadShape, PyStr(SciZea), Absent, PyNone}

\* GET /taxon/{code}/names
NamesReplies ==
    {Fail, BadShape, PyList(<<>>),
     PyList(<<NameEntry("en", 1, PyStr(NameMa))>>),
     PyList(<<NameEntry("fr", 1, PyStr(NameGr)), NameEntry("en", 0, PyStr(NameSw)),
              NameEntry("en", 1, PyStr(NameMA))>>),
     PyList(<<NameEntry("en", 1, PyStr(NameSw)), NameEntry("en", 1, PyStr(NameMa))>>),
     PyList(<<NameEntry("en", 1, PyNone)>>),
     PyList(<<NameEntry("en", 1, PyInt(5))>>)}

\* the fullname of the first entry with langiso "en" and preferred 1, or None
RECURSIVE PreferredEnglish(_)
PreferredEnglish(names) ==
    IF names = <<>> THEN PyNone
    ELSE IF Head(names).langiso = "en" /\ Head(names).preferred = 1 THEN Head(names).fullname
    ELSE PreferredEnglish(Tail(names))

\* a comparison of the two names as they are written
NamesDifferExactly(api_pref_name, db_name) ==
    IF ~IsStr(api_pref_name) \/ ~IsStr(db_name) THEN Raised
    ELSE IF api_pref_name.s # db_name.s THEN PyInt(1) ELSE PyInt(0)

\* api_pref_name.lower() != db_name.lower(): Raised when one of them is no text
NamesDiffer(api_pref_name, db_name) ==
    IF ~IsStr(api_pref_name) \/ ~IsStr(db_name) THEN Raised
    ELSE IF Lower(api_pref_name.s) # Lower(db_name.s) THEN PyInt(1) ELSE PyInt(0)

\* the rows of eppo_codes JOIN crops, as a set
Joined(d) ==
    {[eppo_code_id |-> e.eppo_code_id, eppo_code |-> e.eppo_code, eppo_name |-> e.eppo_name,
      crop_id |-> c.crop_id, common_name_en |-> c.common_name_en,
      scientific_name |-> c.scientific_name] :
        <<e, c>> \in {x \in d["eppo_codes"] \X d["crops"] : x[1].crop_id = x[2].crop_id}}

\* ORDER BY e.eppo_code (rows of equal code in rowid order)
RECURSIVE OrderByCode(_)
OrderByCode(S) ==
    IF S = {} THEN <<>>
    ELSE LET m == CHOOSE r \in S : \A q \in S :
                    \/ TextLess(r.eppo_code, q.eppo_code)
                    \/ r.eppo_code = q.eppo_code /\ r.eppo_code_id <= q.eppo_code_id
         IN  <<m>> \o OrderByCode(S \ {m})

\* the body of the try block for one row and one pair of replies:
\* [raised, queued, update, events]
CheckCode(row, taxon, names) ==
    IF taxon = Fail
    THEN [raised |-> TRUE, queued |-> FALSE, update |-> NoRow, events |-> <<"get_taxon">>]
    ELSE IF names = Fail \/ names = BadShape
    THEN [raised |-> TRUE, queued |-> FALSE, update |-> NoRow,
          events |-> <<"get_taxon", "get_names">>]
    ELSE LET api_pref_name == PreferredEnglish(names.l)
             api_sci_name == IF taxon = Absent THEN PyStr(<<>>) ELSE taxon
             differ == NamesDiffer(api_pref_name, row.eppo_name)
         IN  IF taxon = BadShape
             THEN [raised |-> TRUE, queued |-> FALSE, update |-> NoRow,
                   events |-> <<"get_taxon", "get_names">>]
             ELSE IF ~Truthy(api_pref_name)
             THEN [raised |-> FALSE, queued |-> FALSE, update |-> NoRow,
                   events |-> <<"get_taxon", "get_names", "sleep">>]
             ELSE IF differ = Raised
             THEN [raised |-> TRUE, queued |-> FALSE, update |-> NoRow,
                   events |-> <<"get_taxon", "get_names">>]
             ELSE [raised |-> FALSE, queued |-> differ = PyInt(1),
                   update |-> [new_name |-> api_pref_name, new_sci |-> api_sci_name,
                               eppo_id |-> row.eppo_code_id],
                   events |-> <<"get_taxon", "get_names", "sleep">>]

\* the connection, the SELECT and the check that requests is installed
VerifyStart ==
    /\ tool = "verify" /\ pc = "start"
    /\ IF ~env.has_schema
       THEN /\ pc' = "crashed"
            /\ env' = Connect(env)
            /\ UNCHANGED <<txn, idx, loc, writes, hist>>
            /\ RunFrame
       ELSE IF ~env.lib
       THEN /\ pc' = "returned"
            /\ env' = Connect(env)
            /\ loc' = [rows |-> OrderByCode(Joined(db))]
            /\ UNCHANGED <<txn, idx, writes, hist>>
            /\ RunFrame
       ELSE /\ pc' = "loop"
            /\ env' = Connect(env)
            /\ txn' = db
            /\ idx' = 1
            /\ loc' = [rows |-> OrderByCode(Joined(db)), issues |-> <<>>, updates |-> <<>>,
                       checked |-> <<>>, events |-> <<>>, summary |-> FALSE]
            /\ UNCHANGED <<writes, hist>>
            /\ RunFrame

\* an iteration whose try block has no handler: an exception ends the run
VerifyCheckUncaught ==
    /\ tool = "verify" /\ pc = "loop" /\ idx <= Len(loc.rows)
    /\ \E taxon \in TaxonReplies, names \in NamesReplies :
         LET row == loc.rows[idx]
             c == CheckCode(row, taxon, names)
             newLoc == [loc EXCEPT
                          !.checked = Append(@, row.eppo_code),
                          !.events = @ \o c.events,
                          !.issues = IF c.raised THEN Append(@, <<row.eppo_code, "ERROR">>)
                                     ELSE IF c.queued
                                     THEN Append(@, <<row.eppo_code, "NAME MISMATCH">>)
                                     ELSE @,
                          !.updates = IF c.queued THEN Append(@, c.update) ELSE @]
         IN  /\ loc' = newLoc
             /\ idx' = idx + 1
             /\ hist' = LET step == [kind |-> "check", row |-> row, taxon |-> taxon,
                                      names |-> names, failed |-> c.raised,
                                      d_issues |-> Len(newLoc.issues) - Len(loc.issues),
                                      d_updates |-> Len(newLoc.updates) - Len(loc.updates)]
                         IN  [hist EXCEPT !.last = step, !.log = Append(@, step)]
             /\ pc' = IF c.raised THEN "crashed" ELSE pc
             /\ UNCHANGED <<env, txn, writes>>
             /\ RunFrame

\* one iteration of the loop over the rows, for some replies of the API
VerifyCheck ==
    /\ tool = "verify" /\ pc = "loop" /\ idx <= Len(loc.rows)
    /\ \E taxon \in TaxonReplies, names \in NamesReplies :
         LET row == loc.rows[idx]
             c == CheckCode(row, taxon, names)
             newLoc == [loc EXCEPT
                          !.checked = Append(@, row.eppo_code),
                          !.events = @ \o c.events,
                          !.issues = IF c.raised THEN Append(@, <<row.eppo_code, "ERROR">>)
                                     ELSE IF c.queued
                                     THEN Append(@, <<row.eppo_code, "NAME MISMATCH">>)
                                     ELSE @,
                          !.updates = IF c.queued THEN Append(@, c.update) ELSE @]
         IN  /\ loc' = newLoc
             /\ idx' = idx + 1
             /\ hist' = LET step == [kind |-> "check", row |-> row, taxon |-> taxon,
                                      names |-> names, failed |-> c.raised,
                                      d_issues |-> Len(newLoc.issues) - Len(loc.issues),
                                      d_updates |-> Len(newLoc.updates) - Len(loc.updates)]
                         IN  [hist EXCEPT !.last = step, !.log = Append(@, step)]
             /\ UNCHANGED <<env, pc, txn, writes>>
             /\ RunFrame

\* the same UPDATEs without the test of the stored scientific_name
RECURSIVE ApplyUpdatesOverwriting(_, _)
ApplyUpdatesOverwriting(updates, st) ==
    IF updates = <<>> THEN st
    ELSE LET u == Head(updates)
             named == [st.db EXCEPT !["eppo_codes"] =
                         {IF e.eppo_code_id = u.eppo_id THEN [e EXCEPT !.eppo_name = u.new_name]
                          ELSE e : e \in @}]
             crop_ids == {e.crop_id : e \in {x \in named["eppo_codes"] : x.eppo_code_id = u.eppo_id}}
             both == [named EXCEPT !["crops"] =
                        {IF c.crop_id \in crop_ids
                         THEN [c EXCEPT !.scientific_name = u.new_sci] ELSE c : c \in @}]
         IN  IF Truthy(u.new_sci)
             THEN ApplyUpdatesOverwriting(Tail(updates),
                               [db |-> both, writes |-> st.writes \o <<"UPDATE eppo_codes", "UPDATE crops">>])
             ELSE ApplyUpdatesOverwriting(Tail(updates),
                               [db |-> named, writes |-> Append(st.writes, "UPDATE eppo_codes")])

\* the UPDATEs of the queued corrections, in order: st = [db, writes]
RECURSIVE ApplyUpdates(_, _)
ApplyUpdates(updates, st) ==
    IF updates = <<>> THEN st
    ELSE LET u == Head(updates)
             named == [st.db EXCEPT !["eppo_codes"] =
                         {IF e.eppo_code_id = u.eppo_id THEN [e EXCEPT !.eppo_name = u.new_name]
                          ELSE e : e \in @}]
             crop_ids == {e.crop_id : e \in {x \in named["eppo_codes"] : x.eppo_code_id = u.eppo_id}}
             both == [named EXCEPT !["crops"] =
                        {IF c.crop_id \in crop_ids /\ ~Truthy(c.scientific_name)
                         THEN [c EXCEPT !.scientific_name = u.new_sci] ELSE c : c \in @}]
         IN  IF Truthy(u.new_sci)
             THEN ApplyUpdates(Tail(updates),
                               [db |-> both, writes |-> st.writes \o <<"UPDATE eppo_codes", "UPDATE crops">>])
             ELSE ApplyUpdates(Tail(updates),
                               [db |-> named, writes |-> Append(st.writes, "UPDATE eppo_codes")])

\* a finish that writes the queued corrections whatever dry_run is
VerifyFinishAlways ==
    /\ tool = "verify" /\ pc = "loop" /\ idx > Len(loc.rows)
    /\ LET st == ApplyUpdates(loc.updates, [db |-> txn, writes |-> writes])
           apply == loc.updates # <<>>
       IN  /\ db' = IF apply THEN st.db ELSE db
           /\ txn' = db'
           /\ writes' = IF apply THEN st.writes ELSE writes
           /\ hist' = [hist EXCEPT !.commits = IF apply THEN @ + 1 ELSE @]
    /\ loc' = [loc EXCEPT !.summary = TRUE]
    /\ pc' = "done"
    /\ UNCHANGED <<env, dry_run, tool, input, idx, runs, pureVars>>

\* the summary, then the corrections when the run applies
VerifyFinish ==
    /\ tool = "verify" /\ pc = "loop" /\ idx > Len(loc.rows)
    /\ LET st == ApplyUpdates(loc.updates, [db |-> txn, writes |-> writes])
           apply == loc.updates # <<>> /\ ~dry_run
       IN  /\ db' = IF apply THEN st.db ELSE db
           /\ txn' = db'
           /\ writes' = IF apply THEN st.writes ELSE writes
           /\ hist' = [hist EXCEPT !.commits = IF apply THEN @ + 1 ELSE @]
    /\ loc' = [loc EXCEPT !.summary = TRUE]
    /\ pc' = "done"
    /\ UNCHANGED <<env, dry_run, tool, input, idx, runs, pureVars>>

VerifyNext == VerifyStart \/ VerifyCheck \/ VerifyFinish

SpecVerify == VerifyInit /\ [][VerifyNext]_vars

\* the loop is sequential and each remote call has a time-out: a run goes on
SpecVerifyFair == SpecVerify /\ WF_vars(VerifyNext)

---------------------------------------------------------------------------
(* Any of the tools *)

Init ==
    \/ VerifyInit \/ FocusInit \/ InterceptionInit \/ PrimoInit \/ LinksInit \/ CsvInit

Next ==
    \/ VerifyNext \/ FocusNext \/ InterceptionNext \/ PrimoNext \/ LinksNext \/ CsvNext

Spec == Init /\ [][Next]_vars

---------------------------------------------------------------------------
(* C1 *)

\* C1: in every tool, a run in preview mode (dry_run) leaves the persisted database
\* as it was when the run began, at every point of the run and at its end.
C1_PreviewKeepsDatabase == dry_run => db = hist.db0

\* a preview of verify_codes that ended with corrections queued
C1_PreviewWithCorrectionsEnded ==
    tool = "verify" /\ dry_run /\ pc = "done" /\ loc.updates # <<>>

---------------------------------------------------------------------------
(* C2 *)

\* what the tables hold, whatever the rowids
Content(d) == [tb \in Tables |-> {Data(r) : r \in d[tb]}]

\* C2: when an importer is run in apply mode twice in a row on the same input, the
\* second run leaves every table with the rows the first run left: no row is
\* added, none is lost and none is duplicated.
C2_SecondApplyAddsNothing ==
    (runs >= 1 /\ ~hist.prev.dry_run /\ ~dry_run) =>
        /\ Content(db) = Content(hist.db0)
        /\ \A tb \in Tables : Cardinality(db[tb]) = Cardinality(hist.db0[tb])

\* a second apply run that executed its INSERTs and committed, after a first one
\* that had committed too
C2_SecondApplyCommitted ==
    /\ runs = 1 /\ ~hist.prev.dry_run /\ ~dry_run
    /\ hist.prev.pc = "done" /\ pc = "done"
    /\ writes # <<>> /\ hist.commits >= 1

---------------------------------------------------------------------------
(* C3 *)

\* C3 (as claimed): a record whose crop-name or scenario-code lookup finds no row
\* raises no exception, causes no write, and adds one to the importer's skipped
\* count for each lookup that failed.
C3_UnmatchedCountedAsSkipped ==
    (hist.last.kind = "record" /\ hist.last.unmatched) =>
        /\ ~hist.last.raised
        /\ hist.last.d_writes = 0
        /\ hist.last.d_skipped = hist.last.expect_skips

---------------------------------------------------------------------------
(* C4 *)

\* the text of exactly CodeLen digits (an integer argument is read by its decimal text)
IsSevenDigits(v) == v.t \in {"str", "int"} /\ Len(Str(v)) = CodeLen /\ AllDigits(Str(v))

\* C4 (as claimed): parse_hierarchy_level returns 1 for a 7-digit code ending in
\* three zeros, 2 for one ending in exactly two zeros, 3 for every other 7-digit
\* code, and None for every input that is not exactly 7 digits.
C4_LevelAsClaimed ==
    fn = "parse_hierarchy_level" =>
        ret = IF ~IsSevenDigits(arg) THEN PyNone
              ELSE IF EndsWith(Str(arg), <<"0", "0", "0">>) THEN PyInt(1)
              ELSE IF EndsWith(Str(arg), <<"0", "0">>) THEN PyInt(2)
              ELSE PyInt(3)

---------------------------------------------------------------------------
(* C5 *)

\* C5 (as claimed): a record with a malformed field is caught: it raises nothing
\* that ends the run, so the later records are handled and the batch commits.
C5_MalformedFieldCaught ==
    (hist.last.kind = "record" /\ hist.last.malformed) =>
        ~hist.last.raised /\ pc # "crashed"

---------------------------------------------------------------------------
(* C6 and C7: what the API said in one check *)

\* the entries of a names reply that are English and preferred
EnglishPreferred(names) ==
    {k \in 1..Len(names.l) : names.l[k].langiso = "en" /\ names.l[k].preferred = 1}

\* the API's preferred English name: the first such entry's fullname, None without one
ApiName(names) ==
    IF names.t # "list" \/ EnglishPreferred(names) = {} THEN PyNone
    ELSE names.l[CHOOSE k \in EnglishPreferred(names) :
                    \A j \in EnglishPreferred(names) : k <= j].fullname

\* a remote call failed or gave no usable JSON, or the two names cannot be compared
CheckFailed(step) ==
    \/ step.taxon \in {Fail, BadShape}
    \/ step.names \in {Fail, BadShape}
    \/ /\ Truthy(ApiName(step.names))
       /\ ~IsStr(ApiName(step.names)) \/ ~IsStr(step.row.eppo_name)

\* every stored code appears in `checked` as often as it is stored, in eppo_code order
CheckedOnceInOrder ==
    LET stored == hist.db0["eppo_codes"]
    IN  /\ Len(loc.checked) = Cardinality(stored)
        /\ \A e \in stored :
              Cardinality({k \in 1..Len(loc.checked) : loc.checked[k] = e.eppo_code})
                = Cardinality({q \in stored : q.eppo_code = e.eppo_code})
        /\ \A i, j \in 1..Len(loc.checked) :
              i < j => ~TextLess(loc.checked[j], loc.checked[i])

C6_Safety ==
    /\ pc = "crashed" => ~env.has_schema
    /\ pc = "loop" => Len(loc.checked) = idx - 1
    /\ (hist.last.kind = "check" /\ CheckFailed(hist.last)) =>
          hist.last.d_issues = 1 /\ hist.last.d_updates = 0
    /\ pc = "done" => loc.summary /\ CheckedOnceInOrder

\* C6: in verify_codes, whatever calls or comparisons fail, each failing code adds
\* one entry to the issue list and none to the update list, no failure ends the
\* run, the loop always goes on to the summary, and at the summary every stored
\* code has been checked exactly once, in eppo_code order.
C6_EveryCodeCheckedOnce ==
    /\ []C6_Safety
    /\ (pc = "loop") ~> (pc = "done" /\ loc.summary)

\* a run that reached the summary after a failed check followed by a good one
C6_FailureThenLaterCheck ==
    /\ tool = "verify" /\ pc = "done" /\ Len(hist.log) = 2
    /\ CheckFailed(hist.log[1]) /\ ~CheckFailed(hist.log[2])

---------------------------------------------------------------------------
(* C7 *)

\* the API gave a preferred English name that differs from the stored one when
\* both are put in lower case
NameDiffers(step) ==
    /\ ~CheckFailed(step)
    /\ IsStr(ApiName(step.names)) /\ ApiName(step.names).s # <<>>
    /\ Lower(ApiName(step.names).s) # Lower(step.row.eppo_name.s)

---------------------------------------------------------------------------
(* C8 *)

\* a record has been handled in this run
RecordHandled == hist.last.kind # "none"

\* the database, a source file or a library that the tool needs is missing
MissingInput ==
    \/ ~env.has_schema
    \/ tool = "verify" /\ ~env.lib
    \/ tool = "focus" /\ (input.char = Missing \/ input.irr = Missing)
    \/ tool = "primo" /\ (~env.lib \/ input.xlsx = Missing)
    \/ tool = "links" /\ input.json = Missing
    \/ tool = "csv" /\ (input.crop_csv = Missing \/ input.cs_csv = Missing)
    \/ tool = "csv" /\ input.mdb # NotUsed /\ (~env.lib \/ input.mdb = Missing)

\* C8 (as claimed), in the weakest reading of "processes no record": with a
\* required input missing, no tool goes on to write a record.
C8_MissingInputEndsRun == MissingInput => hist.last.d_writes = 0

\* C8 (amended): a missing database file in the FOCUS main, a missing CSV file,
\* MDB file or pyodbc in the SWASH importer, and a missing openpyxl in
\* import_primo end the run by sys.exit before anything is read; a missing
\* workbook or links JSON ends it with an uncaught exception before any record;
\* verify_codes without requests returns after its SELECT, before any check;
\* with no database no tool ever executes a write; and a missing FOCUS JSON file
\* only leaves that file's import step out.
C8_MissingInputByTool ==
    /\ (tool = "focus" /\ ~env.has_schema) =>
          pc \in {"start", "exited"} /\ ~RecordHandled /\ ~env.db_exists
    /\ (tool = "csv" /\ (input.crop_csv = Missing \/ input.cs_csv = Missing)) =>
          pc \in {"start", "exited"} /\ ~RecordHandled
    /\ (tool = "csv" /\ input.mdb # NotUsed /\ (~env.lib \/ input.mdb = Missing)) =>
          pc \in {"start", "exited"} /\ ~RecordHandled
    /\ (tool = "primo" /\ ~env.lib) =>
          pc \in {"start", "exited"} /\ ~RecordHandled
    /\ (tool = "primo" /\ input.xlsx = Missing) =>
          pc \in {"start", "exited", "crashed"} /\ ~RecordHandled
    /\ (tool = "links" /\ input.json = Missing) =>
          pc \in {"start", "crashed"} /\ ~RecordHandled
    /\ (tool = "verify" /\ ~env.lib) =>
          pc \in {"start", "returned", "crashed"} /\ ~RecordHandled
    /\ ~env.has_schema => writes = <<>> /\ db = EmptyDB
    /\ (tool = "focus" /\ input.char = Missing) => pc # "char_loop"
    /\ (tool = "focus" /\ input.irr = Missing) => pc # "irr_loop"

\* the SWASH importer stopped by sys.exit because cropscenario.csv is missing
C8_ExitedOnMissingFile ==
    tool = "csv" /\ input.cs_csv = Missing /\ input.crop_csv # Missing /\ pc = "exited"

---------------------------------------------------------------------------
(* C9 *)

\* C9 (as claimed): a run without the apply flag passes no INSERT or UPDATE to the
\* database, also when the placeholder crop does not exist yet.
C9_NoWriteStatementInPreview == dry_run => writes = <<>>

---------------------------------------------------------------------------
(* C10 *)

RECURSIVE SumOver(_, _)
SumOver(f, S) == IF S = {} THEN 0 ELSE LET x == CHOOSE x \in S : TRUE IN f[x] + SumOver(f, S \ {x})

\* the entries of INTERCEPTION_DATA whose crop is in focus_crops of the database d
FoundEntries(d) ==
    {k \in 1..Len(input.data) :
        \E r \in d["focus_crops"] : r.swash_crop_name = input.data[k].crop_name}

FilledStages(e) == {j \in 1..Len(e.stages) : ~IsNone(e.stages[j].pct)}

StageCount(d) == SumOver([k \in 1..Len(input.data) |-> Len(input.data[k].stages)], FoundEntries(d))

FilledCount(d) ==
    SumOver([k \in 1..Len(input.data) |-> Cardinality(FilledStages(input.data[k]))], FoundEntries(d))

\* the rows of the filled entries of the found crops
FilledRows(d) ==
    {[focus_crop_id |-> r.focus_crop_id, bbch_stage |-> input.data[k].stages[j].bbch,
      interception_pct |-> input.data[k].stages[j].pct,
      interception_source |-> input.data[k].stages[j].source] :
        <<k, j, r>> \in {x \in (1..Len(input.data)) \X (1..3) \X d["focus_crops"] :
            /\ x[3].swash_crop_name = input.data[x[1]].crop_name
            /\ x[2] \in FilledStages(input.data[x[1]])}}

\* in apply mode, the rows written are those of the filled entries of found crops
InterceptionWritesFilled ==
    (tool = "interception" /\ pc = "done" /\ ~dry_run) =>
        /\ FilledRows(hist.db0) \subseteq {Data(r) : r \in db["focus_crop_interception"]}
        /\ {Data(r) : r \in db["focus_crop_interception"] \ hist.db0["focus_crop_interception"]}
              \subseteq FilledRows(hist.db0)
        /\ Len(writes) = FilledCount(hist.db0)

\* C10 (as claimed): import_interception in apply mode writes a row for exactly the
\* filled entries of the crops found in focus_crops, and in every run (preview or
\* apply) inserted + stubbed equals the number of stage entries of the found crops.
C10_InterceptionAsClaimed ==
    /\ InterceptionWritesFilled
    /\ (tool = "interception" /\ pc = "done") =>
          loc.inserted + loc.stubbed = StageCount(hist.db0)

\* the part of C10 that the code satisfies: apply runs only
C10_InterceptionApplyOnly ==
    /\ InterceptionWritesFilled
    /\ (tool = "interception" /\ pc = "done" /\ ~dry_run) =>
          loc.inserted + loc.stubbed = StageCount(hist.db0)

---------------------------------------------------------------------------
(* C11 *)

\* the irrigation record the last step of the irrigation loop handled
LastIrrRecord == IrrRows.l[IF pc = "crashed" THEN idx ELSE idx - 1]

\* the record has a scenario code, a crop name and an irrigation value
HasAllThree(r) ==
    /\ StripOrEmpty(r.scenario_code) # Raised /\ StripOrEmpty(r.scenario_code).s # <<>>
    /\ StripOrEmpty(r.crop) # Raised /\ StripOrEmpty(r.crop).s # <<>>
    /\ ~IsNone(r.irrigation_mm_annual)

\* the surface-water scenarios and the crops of d that the record names
ScenariosNamed(r, d) ==
    {q \in d["focus_scenarios"] :
        q.scenario_code = StripOrEmpty(r.scenario_code).s /\ q.scenario_type_id = 1}
CropsNamed(r, d) ==
    {q \in d["focus_crops"] : q.swash_crop_name = StripOrEmpty(r.crop).s}

\* the step wrote one row, whose ids are those of the two lookups
WroteIrrigationRow(r) ==
    /\ ~hist.last.raised
    /\ hist.last.d_writes = 1
    /\ \E w \in txn["focus_crop_scenario_irrigation"] :
          /\ \E q \in ScenariosNamed(r, txn) : w.scenario_id = q.scenario_id
          /\ \E q \in CropsNamed(r, txn) : w.focus_crop_id = q.focus_crop_id
          /\ w.rowid = NextRowId(txn["focus_crop_scenario_irrigation"]) - 1

\* the step wrote nothing and reported the record as skipped
SkippedIrrigationRecord(r) ==
    /\ ~hist.last.raised
    /\ hist.last.d_writes = 0
    /\ hist.last.d_skipped = 1
    /\ loc.skipped[Len(loc.skipped)] = <<StripOrEmpty(r.scenario_code).s, StripOrEmpty(r.crop).s>>

\* a step of the irrigation loop of an apply run has just handled a record
AfterIrrStep ==
    /\ tool = "focus" /\ ~dry_run /\ pc \in {"irr_loop", "crashed"}
    /\ "inserted" \in DOMAIN loc /\ hist.last.kind = "record"

\* C11 (as claimed): import_irrigation in apply mode upserts a row for exactly the
\* records that have all three fields and whose scenario code matches a
\* surface-water scenario and whose crop name matches a focus crop; every other
\* record with all three fields is skipped and reported; the written row carries
\* the ids the two lookups returned.
C11_IrrigationAsClaimed ==
    AfterIrrStep =>
        IF ~HasAllThree(LastIrrRecord)
        THEN hist.last.d_writes = 0
        ELSE IF ScenariosNamed(LastIrrRecord, txn) # {} /\ CropsNamed(LastIrrRecord, txn) # {}
        THEN WroteIrrigationRow(LastIrrRecord)
        ELSE SkippedIrrigationRecord(LastIrrRecord)

\* the part of C11 the code satisfies: records whose irrigation value is a number
C11_IrrigationNumericOnly ==
    (AfterIrrStep /\ HasAllThree(LastIrrRecord)
        /\ ToFloat(LastIrrRecord.irrigation_mm_annual) # Raised) =>
        IF ScenariosNamed(LastIrrRecord, txn) # {} /\ CropsNamed(LastIrrRecord, txn) # {}
        THEN WroteIrrigationRow(LastIrrRecord)
        ELSE SkippedIrrigationRecord(LastIrrRecord)

---------------------------------------------------------------------------
(* C12 *)

\* the placeholder crops of the database d
Placeholders(d) == {c \in d["crops"] : c.common_name_en = PLACEHOLDER}

\* the commodity rows the run has added
NewCommodities ==
    (db["reg396_commodities"] \ hist.db0["reg396_commodities"])
        \cup (db["primo_commodities"] \ hist.db0["primo_commodities"])

\* every commodity row the run inserted carries the placeholder's crop_id
InsertedUnderPlaceholder ==
    \A w \in NewCommodities : \E c \in Placeholders(db) : w.crop_id = c.crop_id

\* an apply run that had its library, its workbook with the sheet and a database
\* with the schema has ended
PrimoApplyRunEnded ==
    /\ tool = "primo" /\ ~dry_run /\ pc \in {"done", "crashed"}
    /\ env.lib /\ env.has_schema /\ input.xlsx # Missing /\ input.xlsx.has_sheet

\* C12 (as claimed): every commodity row import_primo inserts carries the crop_id
\* of the placeholder crop; the crops table never holds more than one placeholder
\* crop, and holds exactly one once an apply run has ended.
C12_OnePlaceholderAsClaimed ==
    tool = "primo" =>
        /\ InsertedUnderPlaceholder
        /\ Cardinality(Placeholders(db)) <= 1
        /\ PrimoApplyRunEnded => Cardinality(Placeholders(db)) = 1

\* the part of C12 the code satisfies
C12_AtMostOnePlaceholder ==
    tool = "primo" => InsertedUnderPlaceholder /\ Cardinality(Placeholders(db)) <= 1

---------------------------------------------------------------------------
(* C13 *)

\* C13 (as claimed): in verify_codes every code's first remote call, other than
\* the first code's, comes right after the delay step.
C13_DelayBetweenCodes ==
    (tool = "verify" /\ pc \in {"loop", "done"}) =>
        \A k \in 2..Len(loc.events) :
            loc.events[k] = "get_taxon" => loc.events[k - 1] = "sleep"

\* the part of C13 the code satisfies: the delay follows every check that succeeded
C13_DelayAfterSuccess ==
    (tool = "verify" /\ pc \in {"loop", "done"}) =>
        \A k \in 1..Len(hist.log) :
            ~hist.log[k].failed =>
                \E j \in 1..Len(loc.events) :
                    /\ loc.events[j] = "sleep"
                    /\ Cardinality({i \in 1..j : loc.events[i] = "get_taxon"}) = k
                    /\ j = Len(loc.events) \/ loc.events[j + 1] = "get_taxon"

---------------------------------------------------------------------------
(* C14 *)

SevenDigits(s) == Len(s) = CodeLen /\ AllDigits(s)

Zeros3 == <<"0", "0", "0">>

\* C14 (as claimed): parent_code of a 7-digit code not ending in 000 is a
\* 7-digit code ending in 000 of a strictly lower hierarchy level; of any other
\* input it is None.
C14_ParentAsClaimed ==
    fn = "parent_code" =>
        LET c == Str(arg)
        IN  IF SevenDigits(c) /\ ~EndsWith(c, Zeros3)
            THEN /\ ret.t = "str"
                 /\ SevenDigits(ret.s)
                 /\ EndsWith(ret.s, Zeros3)
                 /\ parse_hierarchy_level(ret).t = "int"
                 /\ parse_hierarchy_level(ret).n < parse_hierarchy_level(PyStr(c)).n
            ELSE ret = PyNone

\* the part of C14 the code satisfies: a 7-digit code ending in 00 but not in
\* 000 gets its 7-digit level-1 group, a 7-digit code ending in 000 gets None,
\* and an input without digits-only content of length 7 gets None
C14_ParentOfSubgroup ==
    fn = "parent_code" =>
        LET c == Str(arg)
        IN  /\ (SevenDigits(c) /\ EndsWith(c, Zeros3)) => ret = PyNone
            /\ (SevenDigits(c) /\ EndsWith(c, <<"0", "0">>) /\ ~EndsWith(c, Zeros3)) =>
                   /\ ret.t = "str" /\ SevenDigits(ret.s) /\ EndsWith(ret.s, Zeros3)
                   /\ parse_hierarchy_level(ret) = PyInt(1)
            /\ ~ReMatchDigits(c, CodeLen, CodeLen) => ret = PyNone

---------------------------------------------------------------------------
(* C15 *)

Importers == {"focus", "interception", "primo", "links", "csv"}

\* the batches a completed run of the tool has: main of the FOCUS importer
\* runs one batch per JSON file that exists, every other importer runs one
BatchesOf ==
    IF tool = "focus"
    THEN (IF input.char # Missing THEN 1 ELSE 0) + (IF input.irr # Missing THEN 1 ELSE 0)
    ELSE 1

Aborted == pc \in {"crashed", "exited"}

\* the tables the irrigation batch of the FOCUS importer writes
IrrigationTable(d) == d["focus_crop_scenario_irrigation"]

\* C15: an importer changes the persisted database only in the commit that
\* follows the last record of a batch, an apply run that completes has committed
\* once per batch and a preview never, and a run that aborts leaves the database
\* as it was when the aborted batch began.
C15_CommitOnceAfterLastRecord ==
    /\ [](tool \in Importers =>
            /\ dry_run => hist.commits = 0 /\ db = hist.db0
            /\ hist.commits <= BatchesOf
            /\ (~dry_run /\ pc = "done") => hist.commits = BatchesOf
            /\ (Aborted /\ hist.commits = 0) => db = hist.db0
            /\ (Aborted /\ hist.commits = 1 /\ tool = "focus") =>
                   IrrigationTable(db) = IrrigationTable(hist.db0)
            /\ Aborted => txn = db)
    /\ [][(tool \in Importers /\ db' # db) =>
            /\ ~dry_run
            /\ db' = txn'
            /\ hist'.commits = hist.commits + 1
            /\ pc' \in {"done", "irr_begin"}
            /\ pc \notin Terminal]_vars

\* an apply run stopped by an uncaught exception after an earlier record of the
\* same batch had been written
C15_AbortedAfterWrite ==
    /\ tool \in {"focus", "links", "csv", "interception"}
    /\ ~dry_run /\ pc = "crashed" /\ hist.commits = 0
    /\ writes # <<>>
    /\ db = hist.db0

---------------------------------------------------------------------------
(* C16 *)

\* the tables a tool fills with INSERT OR IGNORE
IgnoreTables ==
    CASE tool = "primo" -> {"reg396_commodities", "primo_commodities"}
      [] tool \in {"links", "csv"} -> {"focus_crop_scenario_links"}
      [] OTHER -> {}

\* C16: every row that was in a table filled with INSERT OR IGNORE when the run
\* began is still there with every column unchanged, in the connection's view
\* and in the persisted database.
C16_ExistingRowsKept ==
    \A t \in IgnoreTables : hist.db0[t] \subseteq txn[t] /\ hist.db0[t] \subseteq db[t]

\* an apply run of import_primo has met, in the workbook, the code of a
\* commodity that had been re-pointed to a real crop, and has committed
C16_RepointedRowMetAgain ==
    /\ tool = "primo" /\ ~dry_run /\ pc = "done"
    /\ \E r \in hist.db0["reg396_commodities"] :
         /\ \A c \in Placeholders(db) : r.crop_id # c.crop_id
         /\ \E k \in 1..Len(input.xlsx.rows) :
              /\ NormaliseCode(CellText(input.xlsx.rows[k][1])) = r.annex1_code
              /\ CellText(input.xlsx.rows[k][2]) # <<>>
         /\ r \in db["reg396_commodities"]

---------------------------------------------------------------------------
(* C17 *)

\* a preview run that completed is followed by an apply run of the same tool on
\* the same database content and the same sources, which completed as well
PreviewThenApply ==
    /\ runs >= 1 /\ hist.prev.dry_run /\ hist.prev.pc = "done"
    /\ ~dry_run /\ pc = "done"

\* the counters a run prints in its summary lines are the run's locals
CountsAgree == loc = hist.prev.loc

\* C17 (as claimed): the counts a preview run reports equal the counts the apply
\* run on the same database and input reports, for the FOCUS importers,
\* import_links, import_interception and import_from_csv.
C17_PreviewCountsAsClaimed ==
    (tool \in {"focus", "links", "interception", "csv"} /\ PreviewThenApply) => CountsAgree

\* the part of C17 the code satisfies: import_characteristics, import_irrigation
\* and import_links count a row before they test dry_run
C17_PreviewCountsWhereCounted ==
    (tool \in {"focus", "links"} /\ PreviewThenApply) => CountsAgree

\* import_interception and import_from_csv: the skipped counts agree
C17_SkippedCountsAgree ==
    /\ (tool = "interception" /\ PreviewThenApply) =>
           loc.skipped = hist.prev.loc.skipped /\ loc.stubbed = hist.prev.loc.stubbed
    /\ (tool = "csv" /\ PreviewThenApply) =>
           loc.skipped = hist.prev.loc.skipped /\ loc.skipped_crops = hist.prev.loc.skipped_crops

---------------------------------------------------------------------------
(* C18 *)

\* the rows of `now` are the rows of `was` with at most column `col` changed
SameButColumn(now, was, id, col) ==
    /\ {r[id] : r \in now} = {r[id] : r \in was}
    /\ Cardinality(now) = Cardinality(was)
    /\ \A r \in now : \E r0 \in was :
         /\ r0[id] = r[id]
         /\ \A f \in DOMAIN r \ {col} : r[f] = r0[f]

\* the checks of this run that queued a correction for a code linked to the
\* crop and for which the API gave a non-empty scientific name
SciCorrections(crop_id) ==
    {k \in 1..Len(hist.log) :
        /\ hist.log[k].d_updates = 1
        /\ hist.log[k].row.crop_id = crop_id
        /\ hist.log[k].taxon.t = "str" /\ hist.log[k].taxon.s # <<>>}

\* C18: verify_codes writes nothing but eppo_codes.eppo_name and
\* crops.scientific_name; a scientific_name that differs from the one stored when
\* the run began was NULL or empty then, and is now the API's non-empty scientific
\* name of a code linked to the crop for which a name correction was queued.
C18_ScientificNameFrame ==
    tool = "verify" =>
        /\ \A t \in DOMAIN db \ {"crops", "eppo_codes"} : db[t] = hist.db0[t]
        /\ SameButColumn(db["eppo_codes"], hist.db0["eppo_codes"], "eppo_code_id", "eppo_name")
        /\ SameButColumn(db["crops"], hist.db0["crops"], "crop_id", "scientific_name")
        /\ \A c \in db["crops"] : \A c0 \in hist.db0["crops"] :
             (c0.crop_id = c.crop_id /\ c.scientific_name # c0.scientific_name) =>
                 /\ ~dry_run
                 /\ ~Truthy(c0.scientific_name)
                 /\ \E k \in SciCorrections(c.crop_id) : c.scientific_name = hist.log[k].taxon

\* an apply run has filled in an empty scientific_name and has left a non-empty
\* one alone although a correction with a scientific name was queued for its crop
C18_FilledOneKeptOne ==
    /\ tool = "verify" /\ pc = "done" /\ ~dry_run
    /\ \E c \in db["crops"] : c \notin hist.db0["crops"]
    /\ \E c \in db["crops"] :
         /\ c \in hist.db0["crops"]
         /\ Truthy(c.scientific_name)
         /\ SciCorrections(c.crop_id) # {}

---------------------------------------------------------------------------
(* C19 *)

\* the reg396 rows import_primo has built so far
BuiltRows ==
    IF tool = "primo" /\ pc \in {"parse", "insert", "returned"} THEN loc.reg396_rows ELSE <<>>

\* the sheet row the loop handled last, when a reg396 row was built from it
LastSheetRow == input.xlsx.rows[idx - 1]

BuiltFromLast ==
    /\ tool = "primo" /\ pc \in {"parse", "insert", "returned"}
    /\ idx > 1 /\ hist.last.kind = "record"
    /\ CellText(LastSheetRow[1]) # <<>> /\ CellText(LastSheetRow[2]) # <<>>

\* `padded` is `text` with zeros put in front up to 7 characters
ZeroPadded(text, padded) ==
    /\ Len(padded) = CodeLen
    /\ SubSeq(padded, CodeLen - Len(text) + 1, CodeLen) = text
    /\ \A k \in 1..(CodeLen - Len(text)) : padded[k] = "0"

\* C19: every reg396 row import_primo builds has hierarchy_level 1, 2 or 3; a
\* code that is not 7 digits has level 3; parent_annex1_code is None exactly
\* when parse_hierarchy_level of the code is 1 or None; and the code of the row
\* built from an all-digit cell of 1 to 7 digits is that text zero-padded to 7.
C19_LevelAndParentOfBuiltRows ==
    /\ \A k \in 1..Len(BuiltRows) :
         LET r == BuiltRows[k]
             level == parse_hierarchy_level(PyStr(r.annex1_code))
         IN  /\ r.hierarchy_level \in {1, 2, 3}
             /\ ~SevenDigits(r.annex1_code) => r.hierarchy_level = 3
             /\ SevenDigits(r.annex1_code) => level = PyInt(r.hierarchy_level)
             /\ r.parent_annex1_code = PyNone <=> level \in {PyInt(1), PyNone}
    /\ BuiltFromLast =>
         LET text == CellText(LastSheetRow[1])
             r == BuiltRows[Len(BuiltRows)]
         IN  IF AllDigits(text) /\ Len(text) <= CodeLen
             THEN ZeroPadded(text, r.annex1_code)
             ELSE r.annex1_code = text

\* a row with a code that is not 7 digits has been built, and then a row from
\* a cell that holds the code as a number of fewer than 7 digits
C19_PaddedAfterUnpaddable ==
    /\ BuiltFromLast
    /\ LastSheetRow[1].t = "int"
    /\ Len(CellText(LastSheetRow[1])) < CodeLen
    /\ BuiltRows[Len(BuiltRows)].hierarchy_level = 3
    /\ BuiltRows[Len(BuiltRows)].parent_annex1_code # PyNone
    /\ \E k \in 1..Len(BuiltRows) :
         ~SevenDigits(BuiltRows[k].annex1_code) /\ BuiltRows[k].parent_annex1_code = PyNone

---------------------------------------------------------------------------
(* C20 *)

InCharacteristicsStep == tool = "focus" /\ pc \in {"char_begin", "char_loop"}

\* C20 (as claimed): when the irrigation JSON exists, the characteristics step
\* of main never ends the run: whatever its outcome, control goes on to the
\* irrigation step.
C20_CharacteristicsNeverEndRun ==
    [][(InCharacteristicsStep /\ input.irr # Missing) => pc' \notin {"exited", "crashed"}]_vars

\* the part of C20 the code satisfies: the irrigation step follows when the
\* characteristics file is absent and when import_characteristics returns (also
\* with every scenario unmatched), and it never starts before the
\* characteristics step is over
C20_IrrigationAfterCharacteristics ==
    [][/\ (tool = "focus" /\ pc = "char_begin" /\ input.char = Missing) => pc' = "irr_begin"
       /\ (tool = "focus" /\ pc = "char_loop" /\ pc' \notin {"char_loop", "crashed"}) =>
              pc' = "irr_begin"
       /\ (tool = "focus" /\ pc' = "irr_begin" /\ pc # "irr_begin") =>
              pc \in {"char_begin", "char_loop"}]_vars

=============================================================================
